---- MODULE Spec2Model ----
(***************************************************************************)
(* Verification model of the OpenTIPE post-editing front end:              *)
(*   - HistoryManager (modules/HistoryManager.ts), the bounded undo/redo   *)
(*     ring buffer, driven as in its unit tests;                           *)
(*   - parseEditorContent / buildEditorContentWithMarks                    *)
(*     (modules/editorUtil.ts), the segment reconciliation engine;         *)
(*   - the suggestions view's edit / history wiring (SuggestionsView and   *)
(*     store/index.ts).                                                    *)
(***************************************************************************)
EXTENDS Integers, Sequences, FiniteSets, TLC

(***************************************************************************)
(* Bounds of the model.                                                    *)
(***************************************************************************)
\* largest capacity (maxLength) a HistoryManager is constructed with
MaxCapacity == 3
\* number of addToHistory calls explored in one run
MaxAdds == 4
\* the states pushed are the numbers 0..MaxStateValue (HistoryManager<number>)
MaxStateValue == 3
\* number of paragraphs of an editor document
MaxParagraphs == 3
\* number of text leaves of an editor document
MaxLeaves == 4
\* number of leaves of a document of typed raw text, and the length of their text
MaxTypedLeaves == 2
MaxTextLen == 3
\* length of the two texts handed to getHighlights
MaxHighlightLen == 5
\* number of addToHistory calls the history watcher of the view makes in one run
MaxViewAdds == 5
\* startTranslation calls, and session ids the store hands out
MaxRequests == 3
MaxSessions == 2
\* blocks and leaves of a skeleton handed to buildEditorContentWithMarks
MaxSkeletonBlocks == 2
MaxSkeletonLeaves == 2
\* runs of the history watcher in one run of the view with undo and redo
MaxSessionAdds == 5
\* notifications handed to notify()
MaxNotifications == 3

VARIABLES
    \* ---- HistoryManager<A> fields (HistoryManager.ts:16-24)
    maxLength,      \* capacity of the ring buffer
    deepCopy,       \* copy snapshots on write and on read
    pos,            \* slot currently viewed
    start,          \* oldest valid slot
    end,            \* newest valid slot
    states,         \* the JS array `states`; slot i is states[i + 1]
    \* ---- the caller of the HistoryManager: last call made and what it returned
    op,             \* "none" | "addToHistory" | "goBack" | "goForward" | "clear"
    arg,            \* argument of the last addToHistory call
    ret,            \* boolean returned by the last call
    \* ---- reference list model of the test 'Random testing'
    refHistory,     \* linear list of the pushed states
    index,          \* cursor into refHistory (0-based, -1: nothing pushed)
    newestStateIndex, \* index of the newest entry that is still valid
    refCanGoBack,   \* how many steps back the reference allows
    \* ---- bookkeeping about the run
    adds,           \* number of addToHistory calls made
    pushed,         \* set of values handed to addToHistory so far
    distinctRun,    \* all values handed to addToHistory were pairwise distinct
    navigated,      \* goBack / goForward was called since construction / clear
    discarded,      \* values that were ahead of the cursor when a push happened
    \* ---- the translated-text editor and what parse / build made of its content
    editorContent,  \* document tree of the editor (JSONContent)
    editorPc,       \* "editing" | "parsed" | "built"
    parsedTextSegments, \* parseEditorContent(...).textSegments
    parsedStructure,    \* parseEditorContent(...).structure
    parsedHistory,      \* parseHistory returned for the root node
    builtContent,   \* result of buildEditorContentWithMarks
    \* ---- the store and the suggestions view
    storeState,     \* the reactive `state` of the store
    viewPc,         \* "created" | "mounted": has setup() of the view run
    microtasks,     \* the microtask queue: "flushJobs" (watchers) and "resume"
                    \* (the timer callback after `await applyEdits`)
    timerPending,   \* the debounce timer of handleUserEdit is running
    uuidCount,      \* number of identifiers uuid() has handed out
    action,         \* the user action in progress or last completed
    entries,        \* history entries added since that action began
    \* ---- buildEditorContentWithMarks called on a skeleton and a collection
    skeleton,       \* the structure handed to the call (JSONContentStructure)
    segmentCollection, \* the text segments handed to the call
    sourceSide,     \* the takeSource argument of the call
    rebuilt,        \* what the call returned or threw
    buildPc,        \* "composing" | "built"
    \* ---- getHighlights called on two texts
    fromText,       \* the argument `from`
    toText,         \* the argument `to`
    highlights,     \* the value returned
    highlightPc,    \* "typing" | "done"
    \* ---- the translation view and the requests it has sent
    translationSessionId, \* state.translationSessionId of the store
    latestTranslationId,  \* `let latestTranslationId` of the view
    showTranslationDialog, \* the dialog `Translation is in progress...` is open
    selectedTrgLangCode,  \* the target language selected
    requests,       \* one entry for every startTranslation call, in call order
    textSegmentsFromApi, \* the response written to the store, by its request
    route,          \* "TranslationView" | "SuggestionsView"
    sessionCount,   \* number of session ids handed out
    \* ---- the debounce timers of handleUserEdit and the clock they read
    timers,         \* the setTimeout callbacks not yet run, in the order they fire
    lastUserEditTime, \* `let lastUserEditTime` of the view
    now,            \* the value Date.now() returned last
    userEdits,      \* number of handleUserEdit invocations so far
    \* ---- the Notifier and the component TheNotifier
    notificationQueue,     \* Notifier.notificationQueue
    currentNotificationId, \* Notifier.currentNotificationId
    autoDismissTimers,     \* localNotificationId of every auto-dismiss timer pending
    handOverTimers,        \* number of 300 ms timers of dismissCurrentNotification pending
    showNotification,      \* ref showNotification of TheNotifier
    notificationMessage,   \* ref notificationMessage of TheNotifier
    notified,              \* the messages passed to notify(), in call order
    displayLog             \* the messages TheNotifier was told to display, in order

hmVars == <<maxLength, deepCopy, pos, start, end, states>>
callVars == <<op, arg, ret>>
refVars == <<refHistory, index, newestStateIndex, refCanGoBack>>
runVars == <<adds, pushed, distinctRun, navigated, discarded>>
historyVars == <<hmVars, callVars, refVars, runVars>>
editorVars ==
    <<editorContent, editorPc, parsedTextSegments, parsedStructure, parsedHistory, builtContent>>
storeVars == <<storeState, viewPc, microtasks, timerPending, uuidCount, action, entries>>
buildVars == <<skeleton, segmentCollection, sourceSide, rebuilt, buildPc>>
highlightVars == <<fromText, toText, highlights, highlightPc>>
translationVars ==
    <<translationSessionId, latestTranslationId, showTranslationDialog,
      selectedTrgLangCode, requests, textSegmentsFromApi, route, sessionCount>>
timerVars == <<timers, lastUserEditTime, now, userEdits>>
notifierVars ==
    <<notificationQueue, currentNotificationId, autoDismissTimers, handOverTimers,
      showNotification, notificationMessage, notified, displayLog>>
utilVars == <<buildVars, highlightVars, translationVars, timerVars, notifierVars>>
vars == <<historyVars, editorVars, storeVars, utilVars>>

StateValues == 0..MaxStateValue

Min(a, b) == IF a <= b THEN a ELSE b

(***************************************************************************)
(* otherUtil.ts                                                            *)
(***************************************************************************)
\* JS remainder operator: the result takes the sign of the dividend.
jsRemainder(n, m) == IF n >= 0 THEN n % m ELSE -((-n) % m)

\* a remainder made non-negative by dropping its sign
posMod_Abs(n, m) ==
    LET remain == jsRemainder(n, m)
    IN  IF remain >= 0 THEN remain ELSE -remain

posMod(n, m) ==
    LET remain == jsRemainder(n, m)
    IN  IF remain >= 0 THEN remain ELSE remain + m

\* the value getState() returns for an empty history
Null == "null"

\* JSON.stringify on the values of the model (numbers print in decimal).
JSONstringify(v) == ToString(v)

\* JSON.parse: the value whose serialisation is str. The texts parsed are those of
\* the numbers pushed by the unit tests, and of the store state and its snapshots.
JSONparse(str) ==
    IF \E v \in StateValues : JSONstringify(v) = str
    THEN CHOOSE v \in StateValues : JSONstringify(v) = str
    ELSE CHOOSE v \in {storeState} \cup { states[i] : i \in 1..Len(states) } :
             JSONstringify(v) = str

getDeepCopyOfObject(obj) == JSONparse(JSONstringify(obj))

\* JS truthiness on the values of the model: null and 0 are falsy.
Truthy(v) == JSONstringify(v) \notin {JSONstringify(Null), "0"}

(***************************************************************************)
(* HistoryManager.ts                                                       *)
(***************************************************************************)
canGoBack == ~(pos = start \/ Len(states) = 0)

canGoForward == ~(pos = end \/ Len(states) = 0)

getState ==
    IF Len(states) = 0
    THEN Null
    ELSE IF deepCopy THEN getDeepCopyOfObject(states[pos + 1]) ELSE states[pos + 1]

\* `this.states[i] = v` on a JS array whose slots 0..length-1 are all written
ArrayStore(arr, i, v) ==
    IF i + 1 <= Len(arr) THEN [arr EXCEPT ![i + 1] = v] ELSE Append(arr, v)

\* the duplicate test at the head of addToHistory
IsDuplicate(state) ==
    /\ Truthy(getState)
    /\ JSONstringify(getState) = JSONstringify(state)

\* the slot `start` moves to when the newest entry reaches it
EvictedStart_Keep(newEnd) == start

EvictedStart(newEnd) ==
    IF start = newEnd THEN posMod(newEnd + 1, maxLength) ELSE start

\* the slot `end` is set to by a push
PushedEnd_KeepRedo == IF pos = end THEN posMod(pos + 1, maxLength) ELSE end

PushedEnd == posMod(pos + 1, maxLength)

\* values stored in the slots after pos up to end: the redo branch
RECURSIVE AheadFrom(_)
AheadFrom(p) ==
    IF p = end THEN {}
    ELSE LET q == posMod(p + 1, maxLength) IN {states[q + 1]} \cup AheadFrom(q)

Ahead == IF Len(states) = 0 THEN {} ELSE AheadFrom(pos)

addToHistory(state) ==
    /\ op' = "addToHistory"
    /\ arg' = state
    /\ adds' = adds + 1
    /\ pushed' = pushed \cup {state}
    /\ distinctRun' = (distinctRun /\ state \notin pushed)
    /\ UNCHANGED <<maxLength, deepCopy, navigated>>
    /\ IF IsDuplicate(state)
       THEN /\ ret' = FALSE
            /\ UNCHANGED <<pos, start, end, states, discarded>>
       ELSE /\ ret' = TRUE
            /\ discarded' = discarded \cup Ahead
            /\ IF Len(states) # 0
               THEN /\ end' = PushedEnd
                    /\ pos' = end'
                    /\ start' = EvictedStart(end')
               ELSE UNCHANGED <<pos, start, end>>
            /\ states' = ArrayStore(states, pos',
                                    IF deepCopy THEN getDeepCopyOfObject(state)
                                    ELSE state)
    \* reference list of the test: write at the next index, which becomes the newest
    /\ index' = index + 1
    /\ refHistory' = Append(SubSeq(refHistory, 1, index + 1), state)
    /\ newestStateIndex' = index'
    /\ refCanGoBack' = IF index = -1 THEN 0
                       ELSE Min(refCanGoBack + 1, maxLength - 1)

AddToHistory == adds < MaxAdds /\ \E state \in StateValues : addToHistory(state)

goBack ==
    /\ op' = "goBack"
    /\ navigated' = TRUE
    /\ IF ~canGoBack
       THEN /\ ret' = FALSE
            /\ UNCHANGED pos
       ELSE /\ pos' = posMod(pos - 1, maxLength)
            /\ ret' = TRUE
    \* reference list of the test
    /\ IF refCanGoBack = 0
       THEN UNCHANGED <<index, refCanGoBack>>
       ELSE /\ index' = index - 1
            /\ refCanGoBack' = Min(refCanGoBack - 1, maxLength - 1)
    /\ UNCHANGED <<maxLength, deepCopy, start, end, states, arg, refHistory,
                   newestStateIndex, adds, pushed, distinctRun, discarded>>

goForward ==
    /\ op' = "goForward"
    /\ navigated' = TRUE
    /\ IF ~canGoForward
       THEN /\ ret' = FALSE
            /\ UNCHANGED pos
       ELSE /\ pos' = posMod(pos + 1, maxLength)
            /\ ret' = TRUE
    \* reference list of the test
    /\ IF newestStateIndex <= index
       THEN UNCHANGED <<index, refCanGoBack>>
       ELSE /\ index' = index + 1
            /\ refCanGoBack' = Min(refCanGoBack + 1, maxLength - 1)
    /\ UNCHANGED <<maxLength, deepCopy, start, end, states, arg, refHistory,
                   newestStateIndex, adds, pushed, distinctRun, discarded>>

clear ==
    /\ op # "clear"
    /\ op' = "clear"
    /\ pos' = 0
    /\ start' = 0
    /\ end' = 0
    /\ states' = <<>>
    /\ ret' = FALSE
    /\ navigated' = FALSE
    /\ discarded' = {}
    /\ refHistory' = <<>>
    /\ index' = -1
    /\ newestStateIndex' = -1
    /\ refCanGoBack' = 0
    /\ UNCHANGED <<maxLength, deepCopy, arg, adds, pushed, distinctRun>>

\* new HistoryManager<number>(maxLength, deepCopy)
\* a HistoryManager right after construction, nothing pushed yet
HistoryCleared ==
    /\ pos = 0
    /\ start = 0
    /\ end = 0
    /\ states = <<>>
    /\ op = "none"
    /\ arg = 0
    /\ ret = FALSE
    /\ refHistory = <<>>
    /\ index = -1
    /\ newestStateIndex = -1
    /\ refCanGoBack = 0
    /\ adds = 0
    /\ pushed = {}
    /\ distinctRun = TRUE
    /\ navigated = FALSE
    /\ discarded = {}

HistoryInit ==
    /\ maxLength \in 1..MaxCapacity
    /\ deepCopy \in BOOLEAN
    /\ HistoryCleared

(***************************************************************************)
(* otherUtil.ts: strings are sequences of one-character strings.           *)
(***************************************************************************)
\* the character classes of the regular expression of
\* splitStringIntoSentencesAndWhitespace, restricted to the model's alphabet;
\* "|" is written inside all three bracket expressions and so belongs to each
TerminatorClass == {".", "|", ":", "!", "?"}
CloserClass == {"\"", "|", "'", "(", ")", "{", "}", "[", "]"}
WhitespaceChars == {" "}
WhitespaceClass == WhitespaceChars \cup {"|"}

\* length of the longest run of characters of class cls starting at s[i]
RECURSIVE MaxRun(_, _, _)
MaxRun(s, i, cls) ==
    IF i > Len(s) \/ s[i] \notin cls THEN 0 ELSE 1 + MaxRun(s, i + 1, cls)

\* ([.:!?|]+)(closers*)([.:!?|]*)(whitespace+) tried at position i with greedy,
\* backtracking quantifiers: <<j, k>> where group 4 is s[j..k-1], or <<0, 0>>
RegexMatchAt(s, i) ==
    LET cands ==
            UNION { UNION { { <<t, q, u>> :
                                u \in { v \in 0..MaxRun(s, i + t + q, TerminatorClass) :
                                          MaxRun(s, i + t + q + v, WhitespaceClass) >= 1 } } :
                            q \in 0..MaxRun(s, i + t, CloserClass) } :
                    t \in 1..MaxRun(s, i, TerminatorClass) }
        Before(c, d) == \/ c[1] > d[1]
                        \/ c[1] = d[1] /\ c[2] > d[2]
                        \/ c[1] = d[1] /\ c[2] = d[2] /\ c[3] >= d[3]
    IN  IF cands = {} THEN <<0, 0>>
        ELSE LET c == CHOOSE c \in cands : \A d \in cands : Before(c, d)
                 j == i + c[1] + c[2] + c[3]
             IN  <<j, j + MaxRun(s, j, WhitespaceClass)>>

\* str.replace(regex, '$1$2$3|$4|') with the g flag, scanning from s[i]
RECURSIVE RegexReplaceFrom(_, _)
RegexReplaceFrom(s, i) ==
    IF i > Len(s) THEN <<>>
    ELSE LET m == RegexMatchAt(s, i)
         IN  IF m[1] = 0
             THEN <<s[i]>> \o RegexReplaceFrom(s, i + 1)
             ELSE SubSeq(s, i, m[1] - 1) \o <<"|">> \o SubSeq(s, m[1], m[2] - 1)
                      \o <<"|">> \o RegexReplaceFrom(s, m[2])

\* str.split('|'): the pieces between the separators, empty ones included
RECURSIVE SplitOnPipe(_, _)
SplitOnPipe(s, piece) ==
    IF s = <<>> THEN <<piece>>
    ELSE IF Head(s) = "|" THEN <<piece>> \o SplitOnPipe(Tail(s), <<>>)
    ELSE SplitOnPipe(Tail(s), Append(piece, Head(s)))

splitStringIntoSentencesAndWhitespace(str) ==
    LET matchedString == RegexReplaceFrom(str, 1)
    IN  SelectSeq(SplitOnPipe(matchedString, <<>>), LAMBDA piece : Len(piece) > 0)

stringContainsOnlyWhitespace(str) == \A i \in 1..Len(str) : str[i] \in WhitespaceChars

getLastElementInArray(arr) == IF Len(arr) = 0 THEN Null ELSE arr[Len(arr)]

RECURSIVE Flatten(_)
Flatten(seqs) == IF seqs = <<>> THEN <<>> ELSE Head(seqs) \o Flatten(Tail(seqs))

(***************************************************************************)
(* editorUtil.ts: parseEditorContent                                       *)
(***************************************************************************)
\* the n-th identifier handed out by uuid(); distinct from every mark id
uuid(n) == "u" \o ToString(n)

\* m.attrs?.textSegmentId
MarkTextSegmentId(m) ==
    IF "attrs" \in DOMAIN m /\ "textSegmentId" \in DOMAIN m.attrs
    THEN m.attrs.textSegmentId
    ELSE Null

RECURSIVE getTextSegmentIdFromMarks(_)
getTextSegmentIdFromMarks(marks) ==
    IF marks = <<>> THEN Null
    ELSE IF MarkTextSegmentId(Head(marks)) # Null THEN MarkTextSegmentId(Head(marks))
    ELSE getTextSegmentIdFromMarks(Tail(marks))

\* state of the forEach of mergeTextSegmentsWithSameId after the first i elements
RECURSIVE MergeLoop(_, _)
MergeLoop(textSegments, i) ==
    IF i = 0
    THEN [currentId |-> Null, currentText |-> <<>>, cleaned |-> <<>>]
    ELSE LET prev == MergeLoop(textSegments, i - 1)
             ts == textSegments[i]
             ended == ts._id # prev.currentId
             afterChain ==
                 IF ended
                 THEN [currentId |-> ts._id,
                       currentText |-> ts.srcText,
                       cleaned |-> IF prev.currentText # <<>> /\ prev.currentId # Null
                                   THEN Append(prev.cleaned,
                                               [_id |-> prev.currentId,
                                                srcText |-> prev.currentText])
                                   ELSE prev.cleaned]
                 ELSE [prev EXCEPT !.currentText = prev.currentText \o ts.srcText]
         IN  IF i = Len(textSegments) /\ afterChain.currentText # <<>>
             THEN [afterChain EXCEPT !.cleaned =
                       Append(afterChain.cleaned,
                              [_id |-> afterChain.currentId,
                               srcText |-> afterChain.currentText])]
             ELSE afterChain

mergeTextSegmentsWithSameId(textSegments) ==
    MergeLoop(textSegments, Len(textSegments)).cleaned

\* node.textSegmentId, undefined when the node has none
NodeTextSegmentId(node) ==
    IF "textSegmentId" \in DOMAIN node THEN node.textSegmentId ELSE Null

RECURSIVE RemoveDuplicatesLoop(_, _)
RemoveDuplicatesLoop(content, lastId) ==
    IF content = <<>> THEN <<>>
    ELSE LET node == Head(content)
             keep == NodeTextSegmentId(node) = Null \/ lastId # NodeTextSegmentId(node)
         IN  (IF keep THEN <<node>> ELSE <<>>)
                 \o RemoveDuplicatesLoop(Tail(content), NodeTextSegmentId(node))

removeDuplicateTextNodes(content) == RemoveDuplicatesLoop(content, Null)

Includes(arr, x) == \E i \in 1..Len(arr) : arr[i] = x

requiresNewTextSegmentId(textSegmentId, parseHistory) ==
    \/ textSegmentId = Null
    \/ /\ getLastElementInArray(parseHistory) # textSegmentId
       /\ Includes(parseHistory, textSegmentId)

getTextSegmentIdFromMarksWithReplacement(marks, idReplacements) ==
    LET textSegmentId == getTextSegmentIdFromMarks(marks)
    IN  IF textSegmentId = Null THEN Null
        ELSE IF textSegmentId \in DOMAIN idReplacements
             THEN idReplacements[textSegmentId]
             ELSE textSegmentId

\* the leaf branch for a text node that carries marks
ParseMarkedLeaf(node, parseHistory, idReplacements, uuids) ==
    LET found == getTextSegmentIdFromMarksWithReplacement(node.marks, idReplacements)
        needsNew == found = Null \/ requiresNewTextSegmentId(found, parseHistory)
        textSegmentId == IF needsNew THEN uuid(uuids + 1) ELSE found
    IN  [textSegments |-> <<[_id |-> textSegmentId, srcText |-> node.text]>>,
         structures |-> <<[type |-> node.type, textSegmentId |-> textSegmentId]>>,
         parseHistory |-> <<textSegmentId>>,
         idReplacements |-> IF needsNew /\ found # Null
                            THEN (found :> textSegmentId) @@ idReplacements
                            ELSE idReplacements,
         uuids |-> IF needsNew THEN uuids + 1 ELSE uuids]

\* the leaf branch for raw text: splitText.forEach over the pieces from the i-th on
RECURSIVE ParseRawText(_, _, _, _, _)
ParseRawText(type, splitText, i, idReplacements, uuids) ==
    IF i > Len(splitText)
    THEN [textSegments |-> <<>>, structures |-> <<>>, parseHistory |-> <<>>,
          idReplacements |-> idReplacements, uuids |-> uuids]
    ELSE LET str == splitText[i]
             blank == stringContainsOnlyWhitespace(str)
             textSegmentId == uuid(uuids + 1)
             rest == ParseRawText(type, splitText, i + 1, idReplacements,
                                  IF blank THEN uuids ELSE uuids + 1)
         IN  IF blank
             THEN [rest EXCEPT
                     !.structures = <<[type |-> type, text |-> str]>> \o @,
                     !.parseHistory = <<"blank">> \o @]
             ELSE [rest EXCEPT
                     !.textSegments = <<[_id |-> textSegmentId, srcText |-> str]>> \o @,
                     !.structures = <<[type |-> type, textSegmentId |-> textSegmentId]>> \o @,
                     !.parseHistory = <<textSegmentId>> \o @]

RECURSIVE parseEditorContentInternal(_, _, _, _)
\* content.forEach of the non-leaf branch, after the first i children
RECURSIVE ParseChildren(_, _, _, _, _)
ParseChildren(content, i, parseHistory, oldIdReplacements, uuids) ==
    IF i = 0
    THEN [textSegments |-> <<>>, structures |-> <<>>, parseHistory |-> <<>>,
          idReplacements |-> oldIdReplacements, uuids |-> uuids]
    ELSE LET acc == ParseChildren(content, i - 1, parseHistory, oldIdReplacements, uuids)
             child == parseEditorContentInternal(content[i],
                                                 parseHistory \o acc.parseHistory,
                                                 acc.idReplacements,
                                                 acc.uuids)
         IN  [textSegments |-> acc.textSegments \o child.textSegments,
              structures |-> acc.structures \o child.structures,
              parseHistory |-> acc.parseHistory \o child.parseHistory,
              idReplacements |-> child.idReplacements,
              uuids |-> child.uuids]

parseEditorContentInternal(contentNode, parseHistory, oldIdReplacements, uuids) ==
    IF "text" \in DOMAIN contentNode
    THEN IF "marks" \in DOMAIN contentNode
         THEN ParseMarkedLeaf(contentNode, parseHistory, oldIdReplacements, uuids)
         ELSE ParseRawText(contentNode.type,
                           splitStringIntoSentencesAndWhitespace(contentNode.text),
                           1, oldIdReplacements, uuids)
    ELSE IF "content" \notin DOMAIN contentNode
    THEN [textSegments |-> <<>>, structures |-> <<contentNode>>,
          parseHistory |-> <<"break">>,
          idReplacements |-> oldIdReplacements, uuids |-> uuids]
    ELSE LET children == ParseChildren(contentNode.content, Len(contentNode.content),
                                       parseHistory, oldIdReplacements, uuids)
         IN  [textSegments |-> mergeTextSegmentsWithSameId(children.textSegments),
              structures |-> <<[type |-> contentNode.type,
                                content |-> removeDuplicateTextNodes(children.structures)]>>,
              parseHistory |-> Append(children.parseHistory, "break"),
              idReplacements |-> children.idReplacements,
              uuids |-> children.uuids]

parseEditorContent(doc) ==
    LET result == parseEditorContentInternal(doc, <<>>, <<>>, 0)
    IN  [textSegments |-> result.textSegments, structure |-> result.structures[1]]

(***************************************************************************)
(* The word diff that getHighlights calls: diffWords of the package `diff` *)
(* (suggestionUtil.ts:14), which compares word by word and ignores         *)
(* whitespace.  Texts are sequences of characters.                         *)
(***************************************************************************)
BracketChars == {"(", ")", "[", "]", "{", "}", "'"}
PunctuationChars == {".", ",", "|", "!", "?", ":"}

TokenClass(c) ==
    IF c \in WhitespaceChars THEN "whitespace"
    ELSE IF c \in BracketChars THEN "bracket"
    ELSE IF c \in PunctuationChars THEN "punctuation"
    ELSE "word"

\* wordDiff.tokenize followed by removeEmpty: a run of whitespace is one token,
\* a bracket is a token of its own, and the text splits at every word boundary
RECURSIVE tokenize(_)
tokenize(value) ==
    IF value = <<>> THEN <<>>
    ELSE LET c == Head(value)
             rest == tokenize(Tail(value))
         IN  IF /\ rest # <<>>
                /\ TokenClass(c) # "bracket"
                /\ TokenClass(rest[1][1]) = TokenClass(c)
             THEN <<(<<c>> \o rest[1])>> \o Tail(rest)
             ELSE <<(<<c>>)>> \o rest

\* wordDiff.equals with ignoreWhitespace, the default of diffWords
equals(left, right) ==
    \/ left = right
    \/ stringContainsOnlyWhitespace(left) /\ stringContainsOnlyWhitespace(right)

\* an entry of bestPath that is `undefined`
Undefined == [defined |-> FALSE]

pushComponent(components, added, removed) ==
    LET n == Len(components)
    IN  IF n > 0 /\ components[n].added = added /\ components[n].removed = removed
        THEN [components EXCEPT ![n].count = @ + 1]
        ELSE Append(components, [count |-> 1, added |-> added, removed |-> removed])

\* the while loop of extractCommon: how far both token lists agree from here
RECURSIVE CommonCount(_, _, _, _)
CommonCount(newString, oldString, newPos, oldPos) ==
    IF /\ newPos + 1 < Len(newString)
       /\ oldPos + 1 < Len(oldString)
       /\ equals(newString[newPos + 2], oldString[oldPos + 2])
    THEN 1 + CommonCount(newString, oldString, newPos + 1, oldPos + 1)
    ELSE 0

extractCommon(basePath, newString, oldString, diagonalPath) ==
    LET commonCount == CommonCount(newString, oldString, basePath.newPos,
                                   basePath.newPos - diagonalPath)
    IN  [defined |-> TRUE,
         newPos |-> basePath.newPos + commonCount,
         components |->
             IF commonCount > 0
             THEN Append(basePath.components,
                         [count |-> commonCount, added |-> FALSE, removed |-> FALSE])
             ELSE basePath.components]

\* the for loop of execEditLength from diagonalPath on: either the components of
\* a path that reached the end of both token lists, or the new bestPath
RECURSIVE ExecDiagonals(_, _, _, _, _)
ExecDiagonals(diagonalPath, editLength, bestPath, newString, oldString) ==
    IF diagonalPath > editLength THEN [done |-> FALSE, bestPath |-> bestPath]
    ELSE
    LET addPath == bestPath[diagonalPath - 1]
        removePath == bestPath[diagonalPath + 1]
        oldPos == (IF removePath.defined THEN removePath.newPos ELSE 0) - diagonalPath
        cleared == [bestPath EXCEPT ![diagonalPath - 1] = Undefined]
        canAdd == addPath.defined /\ addPath.newPos + 1 < Len(newString)
        canRemove == removePath.defined /\ 0 <= oldPos /\ oldPos < Len(oldString)
    IN  IF ~canAdd /\ ~canRemove
        THEN ExecDiagonals(diagonalPath + 2, editLength,
                           [cleared EXCEPT ![diagonalPath] = Undefined],
                           newString, oldString)
        ELSE
        LET basePath ==
                IF ~canAdd \/ (canRemove /\ addPath.newPos < removePath.newPos)
                THEN [removePath EXCEPT !.components = pushComponent(@, FALSE, TRUE)]
                ELSE [addPath EXCEPT !.newPos = @ + 1,
                                     !.components = pushComponent(@, TRUE, FALSE)]
            extended == extractCommon(basePath, newString, oldString, diagonalPath)
        IN  IF /\ extended.newPos + 1 >= Len(newString)
               /\ (extended.newPos - diagonalPath) + 1 >= Len(oldString)
            THEN [done |-> TRUE, components |-> extended.components]
            ELSE ExecDiagonals(diagonalPath + 2, editLength,
                               [cleared EXCEPT ![diagonalPath] = extended],
                               newString, oldString)

\* while (editLength <= maxEditLength) execEditLength()
RECURSIVE execEditLength(_, _, _, _)
execEditLength(editLength, bestPath, newString, oldString) ==
    LET ran == ExecDiagonals(-editLength, editLength, bestPath, newString, oldString)
    IN  IF ran.done THEN ran.components
        ELSE execEditLength(editLength + 1, ran.bestPath, newString, oldString)

\* the loop of buildValues: the text of every component, a removal moved in
\* front of the addition that precedes it
RECURSIVE BuildValuesLoop(_, _, _, _, _, _, _)
BuildValuesLoop(components, componentPos, newPos, oldPos, newString, oldString, built) ==
    IF componentPos > Len(components) THEN built
    ELSE
    LET component == components[componentPos]
    IN  IF ~component.removed
        THEN BuildValuesLoop(components, componentPos + 1,
                 newPos + component.count,
                 IF component.added THEN oldPos ELSE oldPos + component.count,
                 newString, oldString,
                 Append(built,
                        [value |-> Flatten(SubSeq(newString, newPos + 1,
                                                  newPos + component.count)),
                         added |-> component.added, removed |-> FALSE]))
        ELSE
        LET change == [value |-> Flatten(SubSeq(oldString, oldPos + 1,
                                                oldPos + component.count)),
                       added |-> FALSE, removed |-> TRUE]
            n == Len(built)
        IN  BuildValuesLoop(components, componentPos + 1,
                 newPos, oldPos + component.count, newString, oldString,
                 IF n > 0 /\ built[n].added
                 THEN SubSeq(built, 1, n - 1) \o <<change, built[n]>>
                 ELSE Append(built, change))

\* buildValues: a trailing change that is only whitespace is merged into the
\* component before it and dropped
buildValues(components, newString, oldString) ==
    LET built == BuildValuesLoop(components, 1, 0, 0, newString, oldString, <<>>)
        n == Len(built)
    IN  IF /\ n > 1
           /\ built[n].added \/ built[n].removed
           /\ stringContainsOnlyWhitespace(built[n].value)
        THEN [SubSeq(built, 1, n - 1) EXCEPT ![n - 1].value = @ \o built[n].value]
        ELSE built

\* Diff.diff on the word tokens of the two texts
diffWords(oldStr, newStr) ==
    LET oldString == tokenize(oldStr)
        newString == tokenize(newStr)
        maxEditLength == Len(newString) + Len(oldString)
        seed == extractCommon([defined |-> TRUE, newPos |-> -1, components |-> <<>>],
                              newString, oldString, 0)
    IN  IF seed.newPos + 1 >= Len(newString) /\ seed.newPos + 1 >= Len(oldString)
        THEN <<[value |-> Flatten(newString), added |-> FALSE, removed |-> FALSE]>>
        ELSE buildValues(
                 execEditLength(1,
                     [d \in -(maxEditLength + 1)..(maxEditLength + 1) |->
                         IF d = 0 THEN seed ELSE Undefined],
                     newString, oldString),
                 newString, oldString)

(***************************************************************************)
(* suggestionUtil.ts: getHighlights                                        *)
(***************************************************************************)
\* a reducer that never merges: the buffer only shifts
WhitespaceReducer_NoMerge(acc, c, i, arr) ==
    LET shifted ==
            IF acc.a = <<>> \/ acc.b = <<>>
            THEN [acc EXCEPT !.a = acc.b, !.b = <<c>>]
            ELSE [result |-> Append(acc.result, acc.a[1]), a |-> acc.b, b |-> <<c>>]
    IN  IF i = Len(arr)
        THEN [shifted EXCEPT !.result = @ \o shifted.a \o shifted.b]
        ELSE shifted

\* a reducer whose merge leaves the first highlighted element in the buffer
WhitespaceReducer_KeepFirst(acc, c, i, arr) ==
    LET shifted ==
            IF acc.a = <<>> \/ acc.b = <<>>
            THEN [acc EXCEPT !.a = acc.b, !.b = <<c>>]
            ELSE IF /\ acc.a[1].highlight
                    /\ ~acc.b[1].highlight
                    /\ c.highlight
                    /\ stringContainsOnlyWhitespace(acc.b[1].value)
            THEN [acc EXCEPT !.b = <<[value |-> acc.b[1].value \o c.value,
                                      highlight |-> TRUE]>>]
            ELSE [result |-> Append(acc.result, acc.a[1]), a |-> acc.b, b |-> <<c>>]
    IN  IF i = Len(arr)
        THEN [shifted EXCEPT !.result = @ \o shifted.a \o shifted.b]
        ELSE shifted

\* a reducer that merges through one whitespace chain only: the merged element
\* leaves the buffer at once
WhitespaceReducer_SingleHop(acc, c, i, arr) ==
    LET shifted ==
            IF acc.a = <<>> \/ acc.b = <<>>
            THEN [acc EXCEPT !.a = acc.b, !.b = <<c>>]
            ELSE IF /\ acc.a[1].highlight
                    /\ ~acc.b[1].highlight
                    /\ c.highlight
                    /\ stringContainsOnlyWhitespace(acc.b[1].value)
            THEN [result |-> Append(acc.result,
                                    [value |-> acc.a[1].value \o acc.b[1].value \o c.value,
                                     highlight |-> TRUE]),
                  a |-> <<>>, b |-> <<>>]
            ELSE [result |-> Append(acc.result, acc.a[1]), a |-> acc.b, b |-> <<c>>]
    IN  IF i = Len(arr)
        THEN [shifted EXCEPT !.result = @ \o shifted.a \o shifted.b]
        ELSE shifted

\* the reducer of highlightWhitespaceBetweenHighlights on arr[i]; the buffer
\* slots a and b hold at most one element each
WhitespaceReducer(acc, c, i, arr) ==
    LET shifted ==
            IF acc.a = <<>> \/ acc.b = <<>>
            THEN [acc EXCEPT !.a = acc.b, !.b = <<c>>]
            ELSE IF /\ acc.a[1].highlight
                    /\ ~acc.b[1].highlight
                    /\ c.highlight
                    /\ stringContainsOnlyWhitespace(acc.b[1].value)
            THEN [acc EXCEPT !.a = <<>>,
                             !.b = <<[value |-> acc.a[1].value \o acc.b[1].value \o c.value,
                                      highlight |-> TRUE]>>]
            ELSE [result |-> Append(acc.result, acc.a[1]), a |-> acc.b, b |-> <<c>>]
    IN  IF i = Len(arr)
        THEN [shifted EXCEPT !.result = @ \o shifted.a \o shifted.b]
        ELSE shifted

RECURSIVE WhitespaceReduce(_, _)
WhitespaceReduce(arr, i) ==
    IF i = 0 THEN [a |-> <<>>, b |-> <<>>, result |-> <<>>]
    ELSE WhitespaceReducer(WhitespaceReduce(arr, i - 1), arr[i], i, arr)

highlightWhitespaceBetweenHighlights(arr) == WhitespaceReduce(arr, Len(arr)).result

\* c[strategy] of a change c
ChangeIs(c, strategy) == IF strategy = "removed" THEN c.removed ELSE c.added

\* a reducer that forgets the chain still open at the last change
filterAndCombineChanges_NoTidy(strategy, acc, c, i, arr) ==
    LET otherStrategy == IF strategy = "removed" THEN "added" ELSE "removed"
        relevant == ~ChangeIs(c, otherStrategy)
        ended ==
            IF /\ relevant
               /\ acc.currentChain # <<>>
               /\ acc.currentChain[1].highlight # ChangeIs(c, strategy)
            THEN [currentChain |-> <<>>, result |-> Append(acc.result, acc.currentChain[1])]
            ELSE acc
    IN  IF ~relevant THEN ended
        ELSE IF ended.currentChain = <<>>
        THEN [ended EXCEPT !.currentChain =
                               <<[value |-> c.value, highlight |-> ChangeIs(c, strategy)]>>]
        ELSE [ended EXCEPT !.currentChain[1].value = @ \o c.value]

\* the reducer filterAndCombineChanges on arr[i]; currentChain holds at most one
\* element
filterAndCombineChanges(strategy, acc, c, i, arr) ==
    LET otherStrategy == IF strategy = "removed" THEN "added" ELSE "removed"
        relevant == ~ChangeIs(c, otherStrategy)
        ended ==
            IF /\ relevant
               /\ acc.currentChain # <<>>
               /\ acc.currentChain[1].highlight # ChangeIs(c, strategy)
            THEN [currentChain |-> <<>>, result |-> Append(acc.result, acc.currentChain[1])]
            ELSE acc
        combined ==
            IF ~relevant THEN ended
            ELSE IF ended.currentChain = <<>>
            THEN [ended EXCEPT !.currentChain =
                                   <<[value |-> c.value, highlight |-> ChangeIs(c, strategy)]>>]
            ELSE [ended EXCEPT !.currentChain[1].value = @ \o c.value]
    IN  IF i = Len(arr) /\ combined.currentChain # <<>>
        THEN [combined EXCEPT !.result = Append(@, combined.currentChain[1])]
        ELSE combined

RECURSIVE CombineChanges(_, _, _)
CombineChanges(strategy, diff, i) ==
    IF i = 0 THEN [currentChain |-> <<>>, result |-> <<>>]
    ELSE filterAndCombineChanges(strategy, CombineChanges(strategy, diff, i - 1),
                                 diff[i], i, diff)

getHighlightsWithStrategy(strategy, diff) ==
    highlightWhitespaceBetweenHighlights(CombineChanges(strategy, diff, Len(diff)).result)

getHighlights(from, to) ==
    LET diff == diffWords(from, to)
    IN  [fromHighlights |-> getHighlightsWithStrategy("removed", diff),
         toHighlights |-> getHighlightsWithStrategy("added", diff)]

(***************************************************************************)
(* store/index.ts: the record applyEdits creates for a segment it has not  *)
(* seen before                                                             *)
(***************************************************************************)
NewTextSegment(nts) ==
    [_id |-> nts._id,
     srcText |-> <<>>,
     mtText |-> <<>>,
     mtTextStructure |-> <<>>,
     apeTextStructure |-> <<>>,
     hpeText |-> nts.srcText,
     edits |-> <<[type |-> "created", before |-> <<>>, after |-> nts.srcText]>>,
     apeText |-> <<>>,
     suggestionIsActive |-> FALSE]

(***************************************************************************)
(* editorUtil.ts: buildEditorContentWithMarks                              *)
(***************************************************************************)
hasActiveSuggestion(textSegment) == textSegment.suggestionIsActive

\* a lookup that falls back on the first segment when the id is not found
FindTextSegment_Fallback(textSegments, textSegmentId) ==
    IF \E i \in 1..Len(textSegments) : textSegments[i]._id = textSegmentId
    THEN CHOOSE i \in 1..Len(textSegments) :
            /\ textSegments[i]._id = textSegmentId
            /\ \A j \in 1..(i - 1) : textSegments[j]._id # textSegmentId
    ELSE Min(1, Len(textSegments))

\* textSegments.find((ts) => ts._id === textSegmentId): index of the first hit, or 0
FindTextSegment(textSegments, textSegmentId) ==
    IF \E i \in 1..Len(textSegments) : textSegments[i]._id = textSegmentId
    THEN CHOOSE i \in 1..Len(textSegments) :
            /\ textSegments[i]._id = textSegmentId
            /\ \A j \in 1..(i - 1) : textSegments[j]._id # textSegmentId
    ELSE 0

\* the text regions a segment reference is exploded into
TextSegmentRegions(textSegment, takeSource) ==
    LET textSegmentMark == [type |-> "textSegmentMark",
                            attrs |-> [textSegmentId |-> textSegment._id,
                                       hasSuggestion |-> textSegment.suggestionIsActive]]
        suggestionMark == [type |-> "suggestionMark",
                           attrs |-> [textSegmentId |-> textSegment._id]]
    IN  IF hasActiveSuggestion(textSegment)
        THEN IF takeSource
             THEN <<[type |-> "text", text |-> textSegment.srcText,
                     marks |-> <<textSegmentMark, suggestionMark>>]>>
             ELSE [i \in 1..Len(textSegment.mtTextStructure) |->
                      [type |-> "text",
                       text |-> textSegment.mtTextStructure[i].value,
                       marks |-> IF textSegment.mtTextStructure[i].highlight
                                 THEN <<textSegmentMark, suggestionMark>>
                                 ELSE <<textSegmentMark>>]]
        ELSE <<[type |-> "text",
                text |-> IF takeSource THEN textSegment.srcText ELSE textSegment.hpeText,
                marks |-> <<textSegmentMark>>]>>

\* result of a call that threw `Cannot build editor content ...`
BuildError(textSegmentId) == [error |-> TRUE, textSegmentId |-> textSegmentId]
BuildOk(targetObjects) == [error |-> FALSE, targetObjects |-> targetObjects]

RECURSIVE buildEditorContentWithMarksInternal(_, _, _)
\* content.forEach of the non-leaf branch, after the first i children
RECURSIVE BuildChildren(_, _, _, _)
BuildChildren(content, i, textSegments, takeSource) ==
    IF i = 0 THEN BuildOk(<<>>)
    ELSE LET acc == BuildChildren(content, i - 1, textSegments, takeSource)
         IN  IF acc.error THEN acc
             ELSE LET child == buildEditorContentWithMarksInternal(content[i],
                                                                   textSegments, takeSource)
                  IN  IF child.error THEN child
                      ELSE BuildOk(acc.targetObjects \o child.targetObjects)

buildEditorContentWithMarksInternal(structure, textSegments, takeSource) ==
    IF "text" \in DOMAIN structure
    THEN BuildOk(IF structure.text # <<>> THEN <<structure>> ELSE <<>>)
    ELSE IF "textSegmentId" \in DOMAIN structure
    THEN LET found == FindTextSegment(textSegments, structure.textSegmentId)
         IN  IF found = 0
             THEN BuildError(structure.textSegmentId)
             ELSE BuildOk(SelectSeq(TextSegmentRegions(textSegments[found], takeSource),
                                    LAMBDA x : x.text # <<>>))
    ELSE IF "content" \in DOMAIN structure
    THEN LET children == BuildChildren(structure.content, Len(structure.content),
                                       textSegments, takeSource)
         IN  IF children.error THEN children
             ELSE BuildOk(<<[type |-> structure.type, content |-> children.targetObjects]>>)
    ELSE BuildOk(<<[type |-> structure.type]>>)

buildEditorContentWithMarks(structure, textSegments, takeSource) ==
    LET result == buildEditorContentWithMarksInternal(structure, textSegments, takeSource)
    IN  IF result.error THEN result
        ELSE [error |-> FALSE, content |-> result.targetObjects[1]]

(***************************************************************************)
(* The editor: content changes made by the user (Tiptap onUpdate), each    *)
(* document then parsed and rebuilt as the suggestions view does.          *)
(***************************************************************************)
\* segment ids carried by the marks of the document being edited
\* (a pasted mark can carry any string: "break" is also the word the parser
\* writes into its history at the end of a paragraph)
MarkIds == {"X", "break"}

TextSegmentMarkOf(id) == [type |-> "textSegmentMark", attrs |-> [textSegmentId |-> id]]
SuggestionMarkOf(id) ==
    [type |-> "suggestionMark", attrs |-> [suggestionId |-> "-1", textSegmentId |-> id]]

\* the text leaves the user can put into the document
MarkedLeaves ==
    { [type |-> "text", text |-> <<"a">>, marks |-> <<TextSegmentMarkOf(id)>>] : id \in MarkIds }
    \cup { [type |-> "text", text |-> <<"b">>,
            marks |-> <<TextSegmentMarkOf("X"), SuggestionMarkOf("X")>>] }
RawLeaves ==
    { [type |-> "text", text |-> t] : t \in { <<" ">>, <<"a", ".", " ", "b">> } }
Leaves == MarkedLeaves \cup RawLeaves

\* the characters the user can type: a letter, a sentence terminator, a closing
\* bracket, a blank and the vertical bar
Alphabet == {"a", ".", ")", " ", "|"}

\* the non-empty strings over Alphabet of length at most n
RECURSIVE Strings(_)
Strings(n) ==
    IF n = 0 THEN {}
    ELSE LET shorter == Strings(n - 1)
         IN  shorter \cup { <<c>> : c \in Alphabet }
                     \cup { Append(t, c) : t \in shorter, c \in Alphabet }

ContentOf(node) == IF "content" \in DOMAIN node THEN node.content ELSE <<>>
MarksOf(node) == IF "marks" \in DOMAIN node THEN node.marks ELSE <<>>

\* the editor joins a text node with a preceding sibling that has the same marks,
\* so a leaf is a node of its own only after a sibling with other marks
StartsNewNode(paragraph, leaf) ==
    LET siblings == ContentOf(paragraph)
    IN  siblings # <<>> => MarksOf(siblings[Len(siblings)]) # MarksOf(leaf)

RECURSIVE CountLeaves(_)
CountLeaves(node) ==
    IF "text" \in DOMAIN node THEN 1
    ELSE IF "content" \notin DOMAIN node THEN 0
    ELSE LET counts == [i \in 1..Len(node.content) |-> CountLeaves(node.content[i])]
             Sum[i \in 0..Len(counts)] == IF i = 0 THEN 0 ELSE Sum[i - 1] + counts[i]
         IN  Sum[Len(counts)]

\* the user presses enter: a new, empty paragraph at the end of the document
EditorInsertParagraph ==
    /\ editorPc = "editing"
    /\ Len(ContentOf(editorContent)) < MaxParagraphs
    /\ LET paragraphs == ContentOf(editorContent)
       IN  paragraphs # <<>> => ContentOf(paragraphs[Len(paragraphs)]) # <<>>
    /\ editorContent' = [type |-> "doc",
                         content |-> Append(ContentOf(editorContent), [type |-> "paragraph"])]
    /\ UNCHANGED <<editorPc, parsedTextSegments, parsedStructure, parsedHistory, builtContent>>

\* the user types or pastes a text leaf at the end of the last paragraph
EditorInsertText ==
    /\ editorPc = "editing"
    /\ Len(ContentOf(editorContent)) > 0
    /\ CountLeaves(editorContent) < MaxLeaves
    /\ \E leaf \in Leaves :
          /\ StartsNewNode(editorContent.content[Len(editorContent.content)], leaf)
          /\ LET n == Len(editorContent.content)
                 last == editorContent.content[n]
             IN  editorContent' =
                     [editorContent EXCEPT !.content[n] =
                         [type |-> "paragraph", content |-> Append(ContentOf(last), leaf)]]
    /\ UNCHANGED <<editorPc, parsedTextSegments, parsedStructure, parsedHistory, builtContent>>

\* the user types raw text into a new leaf at the end of the last paragraph
EditorTypeText ==
    /\ editorPc = "editing"
    /\ Len(ContentOf(editorContent)) > 0
    /\ CountLeaves(editorContent) < MaxTypedLeaves
    /\ \E t \in Strings(MaxTextLen) :
          /\ StartsNewNode(editorContent.content[Len(editorContent.content)],
                           [type |-> "text", text |-> t])
          /\ LET n == Len(editorContent.content)
                 last == editorContent.content[n]
             IN  editorContent' =
                     [editorContent EXCEPT !.content[n] =
                         [type |-> "paragraph",
                          content |-> Append(ContentOf(last), [type |-> "text", text |-> t])]]
    /\ UNCHANGED <<editorPc, parsedTextSegments, parsedStructure, parsedHistory, builtContent>>

\* handleUserEdit: parseEditorContent(editorContentTranslated.value)
ParseEditorContent ==
    /\ editorPc = "editing"
    /\ LET result == parseEditorContentInternal(editorContent, <<>>, <<>>, 0)
       IN  /\ parsedTextSegments' = result.textSegments
           /\ parsedStructure' = result.structures[1]
           /\ parsedHistory' = result.parseHistory
    /\ editorPc' = "parsed"
    /\ UNCHANGED <<editorContent, builtContent>>

\* applyEdits creates a record for every parsed segment, and the watchEffect
\* rebuilds the editor content from the parsed structure and these records
BuildEditorContent ==
    /\ editorPc = "parsed"
    /\ LET records == [i \in 1..Len(parsedTextSegments) |->
                          NewTextSegment(parsedTextSegments[i])]
       IN  builtContent' = buildEditorContentWithMarks(parsedStructure, records, FALSE)
    /\ editorPc' = "built"
    /\ UNCHANGED <<editorContent, parsedTextSegments, parsedStructure, parsedHistory>>

EditorInit ==
    /\ editorContent = [type |-> "doc"]
    /\ editorPc = "editing"
    /\ parsedTextSegments = <<>>
    /\ parsedStructure = [type |-> "doc"]
    /\ parsedHistory = <<>>
    /\ builtContent = [error |-> FALSE, content |-> [type |-> "doc"]]

(***************************************************************************)
(* store/index.ts: the methods of the store, as functions of the state     *)
(***************************************************************************)
\* textSegmentsFromApi.map of updateState: the record made of an api segment
AugmentTextSegment(ts) ==
    LET structure == getHighlights(ts.mtText, ts.apeText)
    IN  [_id |-> ts._id,
         srcText |-> ts.srcText,
         mtText |-> ts.mtText,
         mtTextStructure |-> structure.fromHighlights,
         apeTextStructure |-> structure.toHighlights,
         hpeText |-> ts.mtText,
         suggestionIsActive |-> ts.mtText # ts.apeText,
         apeText |-> ts.apeText,
         edits |-> <<>>]

\* state.augmentedTextSegments after the translation results arrived: two
\* segments whose suggestion "b" differs from the machine translation "a"
TextSegmentsFromApi ==
    << AugmentTextSegment([_id |-> "X", srcText |-> <<"s">>,
                           mtText |-> <<"a">>, apeText |-> <<"b">>]),
       AugmentTextSegment([_id |-> "Y", srcText |-> <<"s">>,
                           mtText |-> <<"a">>, apeText |-> <<"b">>]) >>

\* the skeleton of the translated document: one paragraph per segment
StructureFromApi ==
    [type |-> "doc",
     content |-> << [type |-> "paragraph",
                     content |-> <<[type |-> "text", textSegmentId |-> "X"]>>],
                    [type |-> "paragraph",
                     content |-> <<[type |-> "text", textSegmentId |-> "Y"]>>] >>]

\* an accept that does not look at the id of the record
applySuggestion_EveryRecord(s, textSegment) ==
    [s EXCEPT !.augmentedTextSegments =
        [i \in 1..Len(s.augmentedTextSegments) |->
            LET ts == s.augmentedTextSegments[i]
            IN  [ts EXCEPT !.hpeText = ts.apeText,
                           !.suggestionIsActive = FALSE,
                           !.edits = Append(@, [type |-> "accepted",
                                                before |-> ts.hpeText,
                                                after |-> ts.apeText])]]]

applySuggestion(s, textSegment) ==
    [s EXCEPT !.augmentedTextSegments =
        [i \in 1..Len(s.augmentedTextSegments) |->
            LET ts == s.augmentedTextSegments[i]
            IN  IF ts._id = textSegment._id
                THEN [ts EXCEPT !.hpeText = ts.apeText,
                                !.suggestionIsActive = FALSE,
                                !.edits = Append(@, [type |-> "accepted",
                                                     before |-> ts.hpeText,
                                                     after |-> ts.apeText])]
                ELSE ts]]

\* a discard that logs the suggestion as the text it replaced
discardSuggestion_WrongBefore(s, textSegment) ==
    [s EXCEPT !.augmentedTextSegments =
        [i \in 1..Len(s.augmentedTextSegments) |->
            LET ts == s.augmentedTextSegments[i]
            IN  IF ts._id = textSegment._id
                THEN [ts EXCEPT !.hpeText = ts.mtText,
                                !.suggestionIsActive = FALSE,
                                !.edits = Append(@, [type |-> "rejected",
                                                     before |-> ts.apeText,
                                                     after |-> ts.mtText])]
                ELSE ts]]

discardSuggestion(s, textSegment) ==
    [s EXCEPT !.augmentedTextSegments =
        [i \in 1..Len(s.augmentedTextSegments) |->
            LET ts == s.augmentedTextSegments[i]
            IN  IF ts._id = textSegment._id
                THEN [ts EXCEPT !.hpeText = ts.mtText,
                                !.suggestionIsActive = FALSE,
                                !.edits = Append(@, [type |-> "rejected",
                                                     before |-> ts.hpeText,
                                                     after |-> ts.mtText])]
                ELSE ts]]

\* newTextSegments.forEach of applyEdits, after the first i new segments
RECURSIVE ApplyNewTextSegments(_, _, _)
ApplyNewTextSegments(textSegments, newTextSegments, i) ==
    IF i = 0 THEN textSegments
    ELSE LET acc == ApplyNewTextSegments(textSegments, newTextSegments, i - 1)
             nts == newTextSegments[i]
             found == FindTextSegment(acc, nts._id)
         IN  IF found = 0
             THEN Append(acc, NewTextSegment(nts))
             ELSE IF nts.srcText # acc[found].hpeText
             THEN [acc EXCEPT ![found] =
                      [@ EXCEPT !.hpeText = nts.srcText,
                                !.suggestionIsActive = FALSE,
                                !.edits = Append(@, [type |-> "edited",
                                                     before |-> acc[found].hpeText,
                                                     after |-> nts.srcText])]]
             ELSE acc

\* a deletion that leaves the suggestion of the record active
MarkDeleted_StaysActive(textSegments, newTextSegments) ==
    [i \in 1..Len(textSegments) |->
        IF FindTextSegment(newTextSegments, textSegments[i]._id) = 0
        THEN [textSegments[i] EXCEPT
                 !.edits = Append(@, [type |-> "deleted",
                                      before |-> textSegments[i].hpeText,
                                      after |-> <<>>]),
                 !.hpeText = <<>>]
        ELSE textSegments[i]]

\* state.augmentedTextSegments.forEach of applyEdits: the segments that were deleted
MarkDeleted(textSegments, newTextSegments) ==
    [i \in 1..Len(textSegments) |->
        IF FindTextSegment(newTextSegments, textSegments[i]._id) = 0
        THEN [textSegments[i] EXCEPT
                 !.edits = Append(@, [type |-> "deleted",
                                      before |-> textSegments[i].hpeText,
                                      after |-> <<>>]),
                 !.hpeText = <<>>,
                 !.suggestionIsActive = FALSE]
        ELSE textSegments[i]]

\* an applyEdits that removes the records of the segments that were deleted
applyEdits_DropDeleted(s, newTextSegments) ==
    [s EXCEPT !.augmentedTextSegments =
        SelectSeq(ApplyNewTextSegments(@, newTextSegments, Len(newTextSegments)),
                  LAMBDA ts : FindTextSegment(newTextSegments, ts._id) # 0)]

applyEdits(s, newTextSegments) ==
    [s EXCEPT !.augmentedTextSegments =
        MarkDeleted(ApplyNewTextSegments(@, newTextSegments, Len(newTextSegments)),
                    newTextSegments)]

\* updateState for the properties of the state the model holds
updateState(s, partialState, keepTransaction) ==
    [s EXCEPT !.augmentedStructure = IF "augmentedStructure" \in DOMAIN partialState
                                     THEN partialState.augmentedStructure
                                     ELSE @,
              !.user = IF "user" \in DOMAIN partialState
                       THEN partialState.user
                       ELSE @,
              !.isInTransaction = keepTransaction]

\* Object.assign(state, newState): newState holds every property of the state
replaceState(s, newState) == newState

(***************************************************************************)
(* SuggestionsView: the editor bound to the store, the debounced user      *)
(* edit, the accept and discard buttons and the history watcher.           *)
(***************************************************************************)
maxHistoryLength == 100

\* no microtask and no timer is pending
Quiescent == viewPc = "mounted" /\ microtasks = <<>> /\ ~timerPending

\* a user action is started when the previous one is through and the run has
\* room left for the runs of the history watcher it can cause
CanAct(watcherRuns) == Quiescent /\ adds + watcherRuns <= MaxViewAdds

\* the watcher `watch(state, ..., {deep: true})` of the view
HistoryWatcher ==
    IF ~storeState.isInTransaction
    THEN addToHistory(storeState)
    ELSE UNCHANGED historyVars

\* the watchEffect that rebuilds the content of the translated-text editor
RebuildEditorContent ==
    /\ builtContent' = buildEditorContentWithMarks(storeState.augmentedStructure,
                                                   storeState.augmentedTextSegments,
                                                   FALSE)
    /\ editorContent' = IF builtContent'.error THEN editorContent
                        ELSE builtContent'.content

\* setup(): the history takes its first snapshot, the editor gets its content
SetupView ==
    /\ viewPc = "created"
    /\ viewPc' = "mounted"
    /\ addToHistory(storeState)
    /\ RebuildEditorContent
    /\ UNCHANGED <<editorPc, parsedTextSegments, parsedStructure, parsedHistory>>
    /\ UNCHANGED <<storeState, microtasks, timerPending, uuidCount, action, entries>>

\* the mutation of the state queues one run of the watchers
ApplySuggestionButtonClicked ==
    /\ CanAct(1)
    /\ \E i \in 1..Len(storeState.augmentedTextSegments) :
          /\ storeState.augmentedTextSegments[i].suggestionIsActive
          /\ storeState' = applySuggestion(storeState, storeState.augmentedTextSegments[i])
    /\ microtasks' = <<"flushJobs">>
    /\ action' = "accept"
    /\ entries' = 0
    /\ UNCHANGED <<historyVars, editorVars, viewPc, timerPending, uuidCount>>

DiscardSuggestionButtonClicked ==
    /\ CanAct(1)
    /\ \E i \in 1..Len(storeState.augmentedTextSegments) :
          /\ storeState.augmentedTextSegments[i].suggestionIsActive
          /\ storeState' = discardSuggestion(storeState, storeState.augmentedTextSegments[i])
    /\ microtasks' = <<"flushJobs">>
    /\ action' = "discard"
    /\ entries' = 0
    /\ UNCHANGED <<historyVars, editorVars, viewPc, timerPending, uuidCount>>

\* the user types a letter at the end of the l-th leaf of the p-th paragraph
TypedLetters == {"c", "d"}
TypeInto(doc, p, l, c) ==
    [doc EXCEPT !.content[p].content[l].text = Append(@, c)]

\* the user presses enter at the end of the document and goes on typing: the new
\* paragraph holds a leaf with the marks of the leaf the cursor came from
SplitAtEnd(doc) ==
    LET lastParagraph == doc.content[Len(doc.content)]
        lastLeaf == lastParagraph.content[Len(lastParagraph.content)]
    IN  [doc EXCEPT !.content =
            Append(@, [type |-> "paragraph",
                       content |-> <<[lastLeaf EXCEPT !.text = <<"c">>]>>])]

\* the user removes the last paragraph
DeleteLastParagraph(doc) ==
    [doc EXCEPT !.content = SubSeq(@, 1, Len(@) - 1)]

\* the leaves of a document, as <<paragraph, leaf>> positions
LeafPositions(doc) ==
    UNION { { <<p, l>> : l \in 1..Len(ContentOf(doc.content[p])) } :
            p \in 1..Len(ContentOf(doc)) }

\* the documents one user edit can turn the editor content into
UserEdits(doc) ==
    { TypeInto(doc, at[1], at[2], c) : at \in LeafPositions(doc), c \in TypedLetters }
        \cup (IF /\ Len(ContentOf(doc)) \in 1..(MaxParagraphs - 1)
                 /\ ContentOf(doc.content[Len(doc.content)]) # <<>>
              THEN {SplitAtEnd(doc)} ELSE {})
        \cup (IF Len(ContentOf(doc)) > 1 THEN {DeleteLastParagraph(doc)} ELSE {})

\* Tiptap onUpdate and handleUserEdit up to setTimeout: the new content of the
\* editor is parsed and the debounce timer is started
HandleUserEdit ==
    /\ CanAct(2)
    /\ \E doc \in UserEdits(editorContent) :
          LET result == parseEditorContentInternal(doc, <<>>, <<>>, uuidCount)
          IN  /\ editorContent' = doc
              /\ parsedTextSegments' = result.textSegments
              /\ parsedStructure' = result.structures[1]
              /\ parsedHistory' = result.parseHistory
              /\ uuidCount' = result.uuids
    /\ timerPending' = TRUE
    /\ action' = "edit"
    /\ entries' = 0
    /\ UNCHANGED <<historyVars, editorPc, builtContent, storeState, viewPc, microtasks>>

\* the timer callback up to `await applyEdits(textSegments)`: applyEdits has run,
\* its mutations have queued the watchers, and the rest of the callback is queued
\* behind them
TimerFires ==
    /\ viewPc = "mounted"
    /\ timerPending
    /\ microtasks = <<>>
    /\ timerPending' = FALSE
    /\ storeState' = applyEdits(storeState, parsedTextSegments)
    /\ microtasks' = (IF storeState' # storeState THEN <<"flushJobs">> ELSE <<>>)
                         \o <<"resume">>
    /\ UNCHANGED <<historyVars, editorVars, viewPc, uuidCount, action, entries>>

\* the scheduler runs the watchers that the mutations since the last run queued
FlushJobs ==
    /\ microtasks # <<>>
    /\ Head(microtasks) = "flushJobs"
    /\ microtasks' = Tail(microtasks)
    /\ HistoryWatcher
    /\ entries' = IF ~storeState.isInTransaction /\ ret' THEN entries + 1 ELSE entries
    /\ RebuildEditorContent
    /\ UNCHANGED <<editorPc, parsedTextSegments, parsedStructure, parsedHistory>>
    /\ UNCHANGED <<storeState, viewPc, timerPending, uuidCount, action>>

\* the timer callback after the await: updateState({augmentedStructure: structure})
ResumeUserEdit ==
    /\ microtasks # <<>>
    /\ Head(microtasks) = "resume"
    /\ storeState' = updateState(storeState, [augmentedStructure |-> parsedStructure], FALSE)
    /\ microtasks' = Append(Tail(microtasks), "flushJobs")
    /\ UNCHANGED <<historyVars, editorVars, viewPc, timerPending, uuidCount, action, entries>>

StoreInit ==
    /\ storeState = [originalStructure |-> StructureFromApi,
                     augmentedTextSegments |-> TextSegmentsFromApi,
                     augmentedStructure |-> StructureFromApi,
                     user |-> "u1",
                     isInTransaction |-> FALSE]
    /\ viewPc = "created"
    /\ microtasks = <<>>
    /\ timerPending = FALSE
    /\ uuidCount = 0
    /\ action = "none"
    /\ entries = 0

(***************************************************************************)
(* SuggestionsView with everything the user can do at any time: edits in   *)
(* bursts, each with its own timer, undo and redo, and a change of the     *)
(* signed-in user reported by firebase.                                    *)
(***************************************************************************)
\* the values state.user takes: the user object as it was restored from the
\* local storage and as firebase reports it later
Users == {"u1", "u2"}

\* no microtask is pending; timers may be
Idle == viewPc = "mounted" /\ microtasks = <<>>

\* a user action is started when the run has room left for the runs of the
\* history watcher it and the pending timers can cause
SessionCanAct(watcherRuns) ==
    Idle /\ ~timerPending /\ adds + 2 * Len(timers) + watcherRuns <= MaxSessionAdds

\* every handleUserEdit invocation is granted the two runs of the watcher its
\* timer causes when it applies, on top of the run of setup()
CanEdit == 1 + 2 * (userEdits + 1) <= MaxSessionAdds

\* handleUserEdit up to setTimeout, called while timers of earlier calls may
\* still be pending; Date.now() has not gone on or has gone on by one
UserEditInBurst ==
    /\ SessionCanAct(2)
    /\ CanEdit
    /\ userEdits' = userEdits + 1
    /\ \E doc \in UserEdits(editorContent), thisUserEditTime \in {now, now + 1} :
          LET result == parseEditorContentInternal(doc, <<>>, <<>>, uuidCount)
          IN  /\ editorContent' = doc
              /\ now' = thisUserEditTime
              /\ lastUserEditTime' = thisUserEditTime
              /\ timers' = Append(timers, [thisUserEditTime |-> thisUserEditTime,
                                           textSegments |-> result.textSegments,
                                           structure |-> result.structures[1],
                                           overtaken |-> FALSE])
              /\ uuidCount' = result.uuids
    /\ action' = "edit"
    /\ entries' = 0
    /\ UNCHANGED <<historyVars, editorPc, parsedTextSegments, parsedStructure, parsedHistory,
                   builtContent, storeState, viewPc, microtasks, timerPending>>

\* the callback of the oldest timer up to `await applyEdits(textSegments)`, or
\* up to its early return
BurstTimerFires ==
    /\ Idle
    /\ timers # <<>>
    /\ timers' = Tail(timers)
    /\ LET timer == Head(timers)
       IN  IF timer.thisUserEditTime # lastUserEditTime
           THEN UNCHANGED <<storeState, microtasks, parsedTextSegments, parsedStructure>>
           ELSE /\ parsedTextSegments' = timer.textSegments
                /\ parsedStructure' = timer.structure
                /\ storeState' = applyEdits(storeState, timer.textSegments)
                /\ microtasks' = (IF storeState' # storeState THEN <<"flushJobs">> ELSE <<>>)
                                     \o <<"resume">>
    /\ UNCHANGED <<historyVars, editorContent, editorPc, parsedHistory, builtContent>>
    /\ UNCHANGED <<viewPc, timerPending, uuidCount, action, entries, lastUserEditTime, now,
                   userEdits>>

\* the snapshot getState() returns when the cursor is at slot p
StateAt(p) == IF deepCopy THEN getDeepCopyOfObject(states[p + 1]) ELSE states[p + 1]

\* the timers that were pending when the user went through the history
Overtaken(pending) == [i \in 1..Len(pending) |-> [pending[i] EXCEPT !.overtaken = TRUE]]

\* undo(): the copy of the snapshot gets the current user and replaces the state
Undo ==
    /\ SessionCanAct(1)
    /\ goBack
    /\ IF canGoBack
       THEN /\ storeState' = replaceState(storeState,
                                  [StateAt(posMod(pos - 1, maxLength))
                                      EXCEPT !.user = storeState.user])
            /\ microtasks' = <<"flushJobs">>
            /\ timers' = Overtaken(timers)
       ELSE UNCHANGED <<storeState, microtasks, timers>>
    /\ action' = "undo"
    /\ entries' = 0
    /\ UNCHANGED <<editorVars, viewPc, timerPending, uuidCount, lastUserEditTime, now,
                   userEdits>>

\* redo()
Redo ==
    /\ SessionCanAct(1)
    /\ goForward
    /\ IF canGoForward
       THEN /\ storeState' = replaceState(storeState,
                                  [StateAt(posMod(pos + 1, maxLength))
                                      EXCEPT !.user = storeState.user])
            /\ microtasks' = <<"flushJobs">>
            /\ timers' = Overtaken(timers)
       ELSE UNCHANGED <<storeState, microtasks, timers>>
    /\ action' = "redo"
    /\ entries' = 0
    /\ UNCHANGED <<editorVars, viewPc, timerPending, uuidCount, lastUserEditTime, now,
                   userEdits>>

\* auth.onAuthStateChanged((user) => store.methods.updateState({user})), once
\* firebase has loaded the user the state restored from the local storage names
AuthStateChanged ==
    /\ SessionCanAct(1)
    /\ storeState.user = "u1"
    /\ \E user \in Users \ {storeState.user} :
          storeState' = updateState(storeState, [user |-> user], FALSE)
    /\ microtasks' = <<"flushJobs">>
    /\ action' = "auth"
    /\ entries' = 0
    /\ UNCHANGED <<historyVars, editorVars, viewPc, timerPending, uuidCount, timerVars>>

TimerInit ==
    /\ timers = <<>>
    /\ lastUserEditTime = -1
    /\ now = 0
    /\ userEdits = 0

(***************************************************************************)
(* Notifier.ts and TheNotifier.vue                                         *)
(***************************************************************************)
\* displayNotification: the notification gets Date.now() as its id, the
\* component shows it, and the auto-dismiss timer is started if asked for
\* (a notification is displayed on an empty queue or 300 ms after a dismissal,
\* so that Date.now() is later than at the display before)
displayNotification(notification) ==
    LET localNotificationId == now + 1
    IN  /\ now' = localNotificationId
        /\ currentNotificationId' = localNotificationId
        /\ showNotification' = TRUE
        /\ notificationMessage' = notification.message
        /\ displayLog' = Append(displayLog, notification.message)
        /\ autoDismissTimers' =
               IF notification.automaticallyDismissAfter
               THEN Append(autoDismissTimers, localNotificationId)
               ELSE autoDismissTimers

\* notify(message, options)
Notify ==
    /\ Len(notified) < MaxNotifications
    /\ \E automaticallyDismissAfter \in BOOLEAN :
          LET notification == [message |-> Len(notified) + 1,
                               automaticallyDismissAfter |-> automaticallyDismissAfter]
          IN  /\ notified' = Append(notified, notification.message)
              /\ notificationQueue' = Append(notificationQueue, notification)
              /\ IF Len(notificationQueue') > 1
                 THEN UNCHANGED <<now, currentNotificationId, showNotification,
                                  notificationMessage, displayLog, autoDismissTimers>>
                 ELSE displayNotification(notification)
    /\ UNCHANGED handOverTimers

\* dismissCurrentNotification()
dismissCurrentNotification ==
    IF Len(notificationQueue) = 0
    THEN UNCHANGED <<showNotification, handOverTimers>>
    ELSE /\ showNotification' = FALSE
         /\ handOverTimers' = handOverTimers + 1

\* the user clicks the dismiss button of the notification shown
UserDismisses ==
    /\ showNotification
    /\ dismissCurrentNotification
    /\ UNCHANGED <<notificationQueue, currentNotificationId, autoDismissTimers,
                   notificationMessage, notified, displayLog, now>>

\* the callback of an auto-dismiss timer; the timers have delays of their own
\* and fire in any order
AutoDismissTimerFires ==
    /\ \E i \in 1..Len(autoDismissTimers) :
          /\ autoDismissTimers' =
                 SubSeq(autoDismissTimers, 1, i - 1)
                     \o SubSeq(autoDismissTimers, i + 1, Len(autoDismissTimers))
          /\ IF currentNotificationId # autoDismissTimers[i]
             THEN UNCHANGED <<showNotification, handOverTimers>>
             ELSE dismissCurrentNotification
    /\ UNCHANGED <<notificationQueue, currentNotificationId, notificationMessage,
                   notified, displayLog, now>>

\* the callback of the 300 ms timer of dismissCurrentNotification
HandOverTimerFires ==
    /\ handOverTimers > 0
    /\ handOverTimers' = handOverTimers - 1
    /\ notificationQueue' = IF notificationQueue = <<>> THEN <<>> ELSE Tail(notificationQueue)
    /\ IF notificationQueue' # <<>>
       THEN displayNotification(Head(notificationQueue'))
       ELSE UNCHANGED <<now, currentNotificationId, showNotification, notificationMessage,
                        displayLog, autoDismissTimers>>
    /\ UNCHANGED notified

NotifierInit ==
    /\ notificationQueue = <<>>
    /\ currentNotificationId = -1
    /\ autoDismissTimers = <<>>
    /\ handOverTimers = 0
    /\ showNotification = FALSE
    /\ notificationMessage = 0
    /\ notified = <<>>
    /\ displayLog = <<>>

(***************************************************************************)
(* buildEditorContentWithMarks on a skeleton and a collection of segments  *)
(* as the store holds them.                                                *)
(***************************************************************************)
\* the ids the skeleton can refer to; the collection has at most one record
\* for each
SegmentIds == {"X", "Y"}

\* machine translation and suggestion of a segment: equal, different in a
\* word, different only in the whitespace between two words
ApiTexts ==
    { <<(<<"a">>), (<<"a">>)>>,
      <<(<<"a">>), (<<"b">>)>>,
      <<(<<"a", " ", " ", "b">>), (<<"a", " ", "b">>)>> }

ApiTextSegments ==
    { [_id |-> id, srcText |-> IF id = "X" THEN <<"s">> ELSE <<"t">>,
       mtText |-> texts[1], apeText |-> texts[2]] : id \in SegmentIds, texts \in ApiTexts }

\* updateState({ textSegmentsFromApi }): the store makes a record of a segment
ReceiveTextSegment ==
    /\ buildPc = "composing"
    /\ \E ts \in ApiTextSegments :
          /\ \A i \in 1..Len(segmentCollection) : segmentCollection[i]._id # ts._id
          /\ segmentCollection' = Append(segmentCollection, AugmentTextSegment(ts))
    /\ UNCHANGED <<skeleton, sourceSide, rebuilt, buildPc>>

\* the user accepts or rejects the suggestion of a segment
ResolveSuggestion ==
    /\ buildPc = "composing"
    /\ \E i \in 1..Len(segmentCollection), accept \in BOOLEAN :
          /\ hasActiveSuggestion(segmentCollection[i])
          /\ LET s == [augmentedTextSegments |-> segmentCollection]
             IN  segmentCollection' =
                     IF accept
                     THEN applySuggestion(s, segmentCollection[i]).augmentedTextSegments
                     ELSE discardSuggestion(s, segmentCollection[i]).augmentedTextSegments
    /\ UNCHANGED <<skeleton, sourceSide, rebuilt, buildPc>>

\* the leaves of a skeleton, in document order
RECURSIVE SkeletonLeaves(_)
SkeletonLeaves(structure) ==
    IF "content" \in DOMAIN structure
    THEN Flatten([i \in 1..Len(structure.content) |-> SkeletonLeaves(structure.content[i])])
    ELSE IF structure.type = "text" THEN <<structure>> ELSE <<>>

\* the blocks a document is made of: a paragraph, or a quote holding one
SkeletonBlocks ==
    { [type |-> "paragraph", content |-> <<>>],
      [type |-> "blockquote", content |-> <<[type |-> "paragraph", content |-> <<>>]>>] }

\* the leaves of a skeleton: a reference to a segment, or literal whitespace
SkeletonLeafKinds ==
    { [type |-> "text", textSegmentId |-> id] : id \in SegmentIds }
    \cup { [type |-> "text", text |-> <<" ">>] }

SkeletonAddBlock ==
    /\ buildPc = "composing"
    /\ Len(ContentOf(skeleton)) < MaxSkeletonBlocks
    /\ \E block \in SkeletonBlocks :
          skeleton' = [type |-> "doc", content |-> Append(ContentOf(skeleton), block)]
    /\ UNCHANGED <<segmentCollection, sourceSide, rebuilt, buildPc>>

\* a leaf at the end of the last paragraph; the parser never leaves two equal
\* leaves next to each other
SkeletonAddLeaf ==
    /\ buildPc = "composing"
    /\ ContentOf(skeleton) # <<>>
    /\ Len(SkeletonLeaves(skeleton)) < MaxSkeletonLeaves
    /\ \E leaf \in SkeletonLeafKinds :
          LET n == Len(skeleton.content)
              block == skeleton.content[n]
              leaves == IF block.type = "paragraph" THEN block.content
                        ELSE block.content[1].content
          IN  /\ leaves # <<>> => leaves[Len(leaves)] # leaf
              /\ skeleton' =
                     IF block.type = "paragraph"
                     THEN [skeleton EXCEPT !.content[n].content = Append(@, leaf)]
                     ELSE [skeleton EXCEPT !.content[n].content[1].content = Append(@, leaf)]
    /\ UNCHANGED <<segmentCollection, sourceSide, rebuilt, buildPc>>

\* watchEffect of the view: buildEditorContentWithMarks(structure, segments,
\* takeSource) for the untranslated (takeSource) or the translated editor
Rebuild ==
    /\ buildPc = "composing"
    /\ \E takeSource \in BOOLEAN :
          /\ sourceSide' = takeSource
          /\ rebuilt' = buildEditorContentWithMarks(skeleton, segmentCollection, takeSource)
    /\ buildPc' = "built"
    /\ UNCHANGED <<skeleton, segmentCollection>>

(***************************************************************************)
(* TranslationView: startTranslation, abortTranslation and the responses   *)
(* of the translation requests.                                            *)
(***************************************************************************)
TrgLangs == {"de", "fr"}

\* no response has been written to the store
NoResponse == [request |-> 0, trgLang |-> "none"]

\* the user changes the text: the watchEffect calls updateState({
\* originalEditorContent }), which resets the translation data and sets a new
\* translationSessionId
EditOriginalText ==
    /\ route = "TranslationView"
    /\ ~showTranslationDialog
    /\ sessionCount < MaxSessions
    /\ sessionCount' = sessionCount + 1
    /\ translationSessionId' = uuid(sessionCount')
    /\ textSegmentsFromApi' = NoResponse
    /\ UNCHANGED <<latestTranslationId, showTranslationDialog, selectedTrgLangCode,
                   requests, route>>

\* the user selects another target language: updateState({ trgLang })
SelectTrgLang ==
    /\ route = "TranslationView"
    /\ ~showTranslationDialog
    /\ \E lang \in TrgLangs \ {selectedTrgLangCode} : selectedTrgLangCode' = lang
    /\ UNCHANGED <<translationSessionId, latestTranslationId, showTranslationDialog,
                   requests, textSegmentsFromApi, route, sessionCount>>

\* startTranslation up to `await requestTranslationData(...)`; the dialog that
\* opens covers the button, so the next call comes after the dialog has closed
StartTranslation ==
    /\ route = "TranslationView"
    /\ ~showTranslationDialog
    /\ Len(requests) < MaxRequests
    /\ latestTranslationId' = translationSessionId
    /\ showTranslationDialog' = TRUE
    /\ requests' = Append(requests, [thisTranslationId |-> translationSessionId,
                                     trgLang |-> selectedTrgLangCode,
                                     pc |-> "requested"])
    /\ UNCHANGED <<translationSessionId, selectedTrgLangCode, textSegmentsFromApi,
                   route, sessionCount>>

AbortTranslation ==
    /\ showTranslationDialog
    /\ showTranslationDialog' = FALSE
    /\ UNCHANGED <<translationSessionId, latestTranslationId, selectedTrgLangCode,
                   requests, textSegmentsFromApi, route, sessionCount>>

\* startTranslation after `await requestTranslationData(...)` of the r-th call
ResponseArrives ==
    \E r \in 1..Len(requests) :
        /\ requests[r].pc = "requested"
        /\ requests' = [requests EXCEPT ![r].pc = "returned"]
        /\ IF \/ ~showTranslationDialog
              \/ latestTranslationId # requests[r].thisTranslationId
           THEN UNCHANGED <<textSegmentsFromApi, showTranslationDialog, route>>
           ELSE /\ textSegmentsFromApi' = [request |-> r, trgLang |-> requests[r].trgLang]
                /\ showTranslationDialog' = FALSE
                /\ route' = "SuggestionsView"
        /\ UNCHANGED <<translationSessionId, latestTranslationId, selectedTrgLangCode,
                       sessionCount>>

\* requestTranslationData of the r-th call throws: the catch block
RequestFails ==
    \E r \in 1..Len(requests) :
        /\ requests[r].pc = "requested"
        /\ requests' = [requests EXCEPT ![r].pc = "failed"]
        /\ showTranslationDialog' = FALSE
        /\ UNCHANGED <<translationSessionId, latestTranslationId, selectedTrgLangCode,
                       textSegmentsFromApi, route, sessionCount>>

\* setup() of the view: the watchEffect on the editor content has given the
\* store its first session id
TranslationInit ==
    /\ sessionCount = 1
    /\ translationSessionId = uuid(1)
    /\ latestTranslationId = uuid(1)
    /\ showTranslationDialog = FALSE
    /\ selectedTrgLangCode = "de"
    /\ requests = <<>>
    /\ textSegmentsFromApi = NoResponse
    /\ route = "TranslationView"

(***************************************************************************)
(* getHighlights on a machine translation and a suggestion typed in        *)
(* character by character                                                  *)
(***************************************************************************)
\* the machine translation consists of the word "a" and blanks; the suggestion
\* keeps a word or replaces it by a word over "a" and "b"
FromAlphabet == {"a", " "}
ToAlphabet == {"a", "b", " "}

TypeFrom ==
    /\ highlightPc = "typing"
    /\ Len(fromText) < MaxHighlightLen
    /\ \E c \in FromAlphabet : fromText' = Append(fromText, c)
    /\ UNCHANGED <<toText, highlights, highlightPc>>

TypeTo ==
    /\ highlightPc = "typing"
    /\ Len(toText) < MaxHighlightLen
    /\ \E c \in ToAlphabet : toText' = Append(toText, c)
    /\ UNCHANGED <<fromText, highlights, highlightPc>>

\* updateState: const structure = getHighlights(ts.mtText, ts.apeText)
GetHighlights ==
    /\ highlightPc = "typing"
    /\ highlights' = getHighlights(fromText, toText)
    /\ highlightPc' = "done"
    /\ UNCHANGED <<fromText, toText>>

HighlightInit ==
    /\ fromText = <<>>
    /\ toText = <<>>
    /\ highlights = [fromHighlights |-> <<>>, toHighlights |-> <<>>]
    /\ highlightPc = "typing"

BuildInit ==
    /\ skeleton = [type |-> "doc"]
    /\ segmentCollection = <<>>
    /\ sourceSide = FALSE
    /\ rebuilt = [error |-> FALSE, content |-> [type |-> "doc"]]
    /\ buildPc = "composing"

UtilInit == BuildInit /\ HighlightInit /\ TranslationInit /\ TimerInit /\ NotifierInit

(***************************************************************************)
(* Specifications                                                          *)
(***************************************************************************)
\* the HistoryManager driven as in its unit tests
Init == HistoryInit /\ EditorInit /\ StoreInit /\ UtilInit

Next ==
    \/ AddToHistory /\ UNCHANGED <<editorVars, storeVars, utilVars>>
    \/ goBack /\ UNCHANGED <<editorVars, storeVars, utilVars>>
    \/ goForward /\ UNCHANGED <<editorVars, storeVars, utilVars>>
    \/ clear /\ UNCHANGED <<editorVars, storeVars, utilVars>>

Spec == Init /\ [][Next]_vars

\* documents edited by the user, then parsed and rebuilt
InitParse == HistoryInit /\ maxLength = 1 /\ deepCopy /\ EditorInit /\ StoreInit /\ UtilInit

NextParse ==
    \/ EditorInsertParagraph /\ UNCHANGED <<historyVars, storeVars, utilVars>>
    \/ EditorInsertText /\ UNCHANGED <<historyVars, storeVars, utilVars>>
    \/ ParseEditorContent /\ UNCHANGED <<historyVars, storeVars, utilVars>>
    \/ BuildEditorContent /\ UNCHANGED <<historyVars, storeVars, utilVars>>

SpecParse == InitParse /\ [][NextParse]_vars

\* documents of raw text typed by the user, then parsed and rebuilt
NextRoundTrip ==
    \/ EditorInsertParagraph /\ UNCHANGED <<historyVars, storeVars, utilVars>>
    \/ EditorTypeText /\ UNCHANGED <<historyVars, storeVars, utilVars>>
    \/ ParseEditorContent /\ UNCHANGED <<historyVars, storeVars, utilVars>>
    \/ BuildEditorContent /\ UNCHANGED <<historyVars, storeVars, utilVars>>

SpecRoundTrip == InitParse /\ [][NextRoundTrip]_vars

\* the suggestions view on a translated document: new HistoryManager<StoreState>(
\* maxHistoryLength), then user actions and the microtasks they queue
InitView ==
    /\ maxLength = maxHistoryLength
    /\ deepCopy = TRUE
    /\ HistoryCleared
    /\ EditorInit
    /\ StoreInit
    /\ UtilInit

NextView ==
    \/ SetupView /\ UNCHANGED utilVars
    \/ ApplySuggestionButtonClicked /\ UNCHANGED utilVars
    \/ DiscardSuggestionButtonClicked /\ UNCHANGED utilVars
    \/ HandleUserEdit /\ UNCHANGED utilVars
    \/ TimerFires /\ UNCHANGED utilVars
    \/ FlushJobs /\ UNCHANGED utilVars
    \/ ResumeUserEdit /\ UNCHANGED utilVars

SpecView == InitView /\ [][NextView]_vars

\* the suggestions view with bursts of edits, undo, redo and a change of user
NextSession ==
    \/ SetupView /\ UNCHANGED utilVars
    \/ ApplySuggestionButtonClicked /\ SessionCanAct(1) /\ UNCHANGED utilVars
    \/ DiscardSuggestionButtonClicked /\ SessionCanAct(1) /\ UNCHANGED utilVars
    \/ UserEditInBurst /\ UNCHANGED <<buildVars, highlightVars, translationVars, notifierVars>>
    \/ BurstTimerFires /\ UNCHANGED <<buildVars, highlightVars, translationVars, notifierVars>>
    \/ FlushJobs /\ UNCHANGED utilVars
    \/ ResumeUserEdit /\ UNCHANGED utilVars
    \/ Undo /\ UNCHANGED <<buildVars, highlightVars, translationVars, notifierVars>>
    \/ Redo /\ UNCHANGED <<buildVars, highlightVars, translationVars, notifierVars>>
    \/ AuthStateChanged /\ UNCHANGED <<buildVars, highlightVars, translationVars, notifierVars>>

SpecSession == InitView /\ [][NextSession]_vars

\* the Notifier with the component TheNotifier registered
NextNotifier ==
    \/ Notify /\ UNCHANGED <<historyVars, editorVars, storeVars, buildVars, highlightVars, translationVars, timers, lastUserEditTime, userEdits>>
    \/ UserDismisses /\ UNCHANGED <<historyVars, editorVars, storeVars, buildVars, highlightVars, translationVars, timers, lastUserEditTime, userEdits>>
    \/ AutoDismissTimerFires /\ UNCHANGED <<historyVars, editorVars, storeVars, buildVars, highlightVars, translationVars, timers, lastUserEditTime, userEdits>>
    \/ HandOverTimerFires /\ UNCHANGED <<historyVars, editorVars, storeVars, buildVars, highlightVars, translationVars, timers, lastUserEditTime, userEdits>>

SpecNotifier == InitParse /\ [][NextNotifier]_vars

\* buildEditorContentWithMarks on skeletons and collections of the store
NextBuild ==
    \/ ReceiveTextSegment /\ UNCHANGED <<historyVars, editorVars, storeVars, highlightVars, translationVars, timerVars, notifierVars>>
    \/ ResolveSuggestion /\ UNCHANGED <<historyVars, editorVars, storeVars, highlightVars, translationVars, timerVars, notifierVars>>
    \/ SkeletonAddBlock /\ UNCHANGED <<historyVars, editorVars, storeVars, highlightVars, translationVars, timerVars, notifierVars>>
    \/ SkeletonAddLeaf /\ UNCHANGED <<historyVars, editorVars, storeVars, highlightVars, translationVars, timerVars, notifierVars>>
    \/ Rebuild /\ UNCHANGED <<historyVars, editorVars, storeVars, highlightVars, translationVars, timerVars, notifierVars>>

SpecBuild == InitParse /\ [][NextBuild]_vars

\* the translation view and its requests
NextTranslation ==
    \/ EditOriginalText /\ UNCHANGED <<historyVars, editorVars, storeVars, buildVars, highlightVars, timerVars, notifierVars>>
    \/ SelectTrgLang /\ UNCHANGED <<historyVars, editorVars, storeVars, buildVars, highlightVars, timerVars, notifierVars>>
    \/ StartTranslation /\ UNCHANGED <<historyVars, editorVars, storeVars, buildVars, highlightVars, timerVars, notifierVars>>
    \/ AbortTranslation /\ UNCHANGED <<historyVars, editorVars, storeVars, buildVars, highlightVars, timerVars, notifierVars>>
    \/ ResponseArrives /\ UNCHANGED <<historyVars, editorVars, storeVars, buildVars, highlightVars, timerVars, notifierVars>>
    \/ RequestFails /\ UNCHANGED <<historyVars, editorVars, storeVars, buildVars, highlightVars, timerVars, notifierVars>>

SpecTranslation == InitParse /\ [][NextTranslation]_vars

\* getHighlights on the texts of a segment
NextHighlight ==
    \/ TypeFrom /\ UNCHANGED <<historyVars, editorVars, storeVars, buildVars, translationVars, timerVars, notifierVars>>
    \/ TypeTo /\ UNCHANGED <<historyVars, editorVars, storeVars, buildVars, translationVars, timerVars, notifierVars>>
    \/ GetHighlights /\ UNCHANGED <<historyVars, editorVars, storeVars, buildVars, translationVars, timerVars, notifierVars>>

SpecHighlight == InitParse /\ [][NextHighlight]_vars

(***************************************************************************)
(* Claims about the HistoryManager, checked under Spec.                    *)
(***************************************************************************)
\* values visited by calling goBack() until it fails, starting from slot p
RECURSIVE BackWalk(_, _)
BackWalk(p, fuel) ==
    IF p = start \/ fuel = 0
    THEN <<states[p + 1]>>
    ELSE <<states[p + 1]>> \o BackWalk(posMod(p - 1, maxLength), fuel - 1)

\* values stored in the valid slots start..end of the ring
RECURSIVE ValidFrom(_, _)
ValidFrom(p, fuel) ==
    IF p = end \/ fuel = 0
    THEN {states[p + 1]}
    ELSE {states[p + 1]} \cup ValidFrom(posMod(p + 1, maxLength), fuel - 1)

Reachable == IF Len(states) = 0 THEN {} ELSE ValidFrom(start, maxLength)

\* C1: for every capacity and every sequence of addToHistory (pairwise distinct
\* states), goBack and goForward on a fresh manager, getState() is the element
\* under the cursor of the reference list, the reference allows going back /
\* forward exactly when the manager does, and right after a successful
\* addToHistory(s) getState() is s.
C1_MatchesReference ==
    /\ distinctRun =>
          /\ (index = -1) = (Len(states) = 0)
          /\ index >= 0 =>
                JSONstringify(getState) = JSONstringify(refHistory[index + 1])
          /\ canGoBack = (refCanGoBack > 0)
          /\ canGoForward = (newestStateIndex > index)
    /\ (op = "addToHistory" /\ ret) =>
          JSONstringify(getState) = JSONstringify(arg)

C1_Witness ==
    /\ distinctRun
    /\ adds > maxLength
    /\ op = "goBack"
    /\ ret
    /\ index < newestStateIndex
    /\ start # 0

\* C2: canGoBack() is true exactly when goBack() returns true and moves pos one
\* slot back modulo maxLength, canGoForward() exactly when goForward() returns
\* true and moves pos one slot forward; when the predicate is false (pos = start
\* resp. pos = end, or the buffer is empty) the call returns false and changes
\* neither pos, start, end nor any stored entry.
C2_NavigationAgreesWithPredicates ==
    [][ /\ op' = "goBack" =>
              IF pos # start /\ Len(states) # 0
              THEN /\ canGoBack
                   /\ ret'
                   /\ pos' = (pos + maxLength - 1) % maxLength
                   /\ UNCHANGED <<maxLength, deepCopy, start, end, states>>
              ELSE /\ ~canGoBack
                   /\ ~ret'
                   /\ UNCHANGED hmVars
        /\ op' = "goForward" =>
              IF pos # end /\ Len(states) # 0
              THEN /\ canGoForward
                   /\ ret'
                   /\ pos' = (pos + 1) % maxLength
                   /\ UNCHANGED <<maxLength, deepCopy, start, end, states>>
              ELSE /\ ~canGoForward
                   /\ ~ret'
                   /\ UNCHANGED hmVars
      ]_vars

C2_Witness ==
    /\ op = "goBack"
    /\ ret
    /\ maxLength > 1
    /\ pos = maxLength - 1
    /\ end = 0

\* C3: right after a successful addToHistory canGoForward() is false, and no
\* state that was ahead of pos when a push happened is among the states that
\* goBack / goForward can still reach (pairwise distinct states).
C3_PushTruncatesRedo ==
    /\ (op = "addToHistory" /\ ret) => ~canGoForward
    /\ distinctRun => Reachable \cap discarded = {}

C3_Witness ==
    /\ distinctRun
    /\ op = "addToHistory"
    /\ ret
    /\ Cardinality(discarded) >= 2
    /\ Len(states) = maxLength

\* C4: after pushing k > N pairwise distinct states without navigating, goBack()
\* succeeds exactly N - 1 times from the newest state and visits the N most
\* recent states in reverse push order; the older k - N states are not reached.
C4_OnlyNewestNReachable ==
    (distinctRun /\ ~navigated /\ Len(refHistory) > maxLength) =>
        LET k == Len(refHistory)
        IN  BackWalk(pos, maxLength) = [i \in 1..maxLength |-> refHistory[k + 1 - i]]

C4_Witness ==
    /\ distinctRun
    /\ ~navigated
    /\ Len(refHistory) > maxLength + 1
    /\ maxLength > 1

\* C5: addToHistory(s) called while the entry at pos is structurally equal to s
\* returns false and changes neither pos, start, end nor any stored entry, for
\* every state value s.
C5_DuplicateIsNoOp ==
    [][ (op' = "addToHistory" /\ Len(states) # 0
            /\ JSONstringify(arg') = JSONstringify(states[pos + 1]))
        => (~ret' /\ UNCHANGED hmVars) ]_vars

(***************************************************************************)
(* parseEditorContent and buildEditorContentWithMarks                      *)
(***************************************************************************)
\* what each entry of the parser's history was written for: a marked leaf (its
\* mark id and text), a piece of raw text, or the end of a node
RECURSIVE Origin(_)
Origin(node) ==
    IF "text" \in DOMAIN node
    THEN IF "marks" \in DOMAIN node
         THEN <<[mark |-> getTextSegmentIdFromMarks(node.marks), text |-> node.text]>>
         ELSE [i \in 1..Len(splitStringIntoSentencesAndWhitespace(node.text)) |->
                  [mark |-> Null, text |-> <<>>]]
    ELSE Flatten([i \in 1..Len(ContentOf(node)) |-> Origin(node.content[i])])
             \o <<[mark |-> Null, text |-> <<>>]>>

\* the leaves i and j carry the same mark id and something else lies between them
Separated(origin, i, j) ==
    /\ i < j
    /\ origin[i].mark # Null
    /\ origin[j].mark = origin[i].mark
    /\ \E k \in (i + 1)..(j - 1) : origin[k].mark # origin[i].mark

\* the first and the last leaf of the run of equally marked siblings around leaf i
RunStart(origin, i) ==
    CHOOSE a \in 1..i :
        /\ \A k \in a..i : origin[k].mark = origin[i].mark
        /\ a = 1 \/ origin[a - 1].mark # origin[i].mark
RunEnd(origin, i) ==
    CHOOSE b \in i..Len(origin) :
        /\ \A k \in i..b : origin[k].mark = origin[i].mark
        /\ b = Len(origin) \/ origin[b + 1].mark # origin[i].mark
RunText(origin, i) ==
    Flatten([k \in 1..(RunEnd(origin, i) - RunStart(origin, i) + 1) |->
                origin[RunStart(origin, i) + k - 1].text])


\* the concatenated text of the leaves of an editor document
RECURSIVE TextContent(_)
TextContent(node) ==
    IF "text" \in DOMAIN node THEN node.text
    ELSE Flatten([i \in 1..Len(ContentOf(node)) |-> TextContent(node.content[i])])

SegmentsWithId(id) ==
    { s \in 1..Len(parsedTextSegments) : parsedTextSegments[s]._id = id }

\* C7: the segments returned by parseEditorContent have pairwise different ids,
\* whatever ids the marks of the document carry.
C7_UniqueIds ==
    editorPc # "editing" =>
        \A i, j \in 1..Len(parsedTextSegments) :
            i # j => parsedTextSegments[i]._id # parsedTextSegments[j]._id

\* C8: rebuilding a document from its parsed skeleton and parsed segments (as
\* records without suggestion that display the parsed text) gives a document
\* with the same concatenated leaf text, whatever characters the text contains.
C8_RoundTrip ==
    editorPc = "built" =>
        /\ ~builtContent.error
        /\ TextContent(builtContent.content) = TextContent(editorContent)

\* the texts of the leaves of an editor document
RECURSIVE LeafTexts(_)
LeafTexts(node) ==
    IF "text" \in DOMAIN node THEN {node.text}
    ELSE UNION { LeafTexts(node.content[i]) : i \in 1..Len(ContentOf(node)) }

\* C24: for every input string, splitStringIntoSentencesAndWhitespace returns
\* runs that are not empty and whose concatenation, in order, is the input
\* string: no character is dropped or added.
C24_SplitIsPartition ==
    editorPc = "parsed" =>
        \A str \in LeafTexts(editorContent) :
            LET runs == splitStringIntoSentencesAndWhitespace(str)
            IN  /\ \A i \in 1..Len(runs) : runs[i] # <<>>
                /\ Flatten(runs) = str

\* C9: when leaves with the same mark id are separated by something else, only
\* the first occurrence keeps the id of the mark; a later one gets an id that is
\* neither the original nor the id given to the occurrence it is separated from.
C9_SeparatedGetsFreshId ==
    editorPc # "editing" =>
        LET origin == Origin(editorContent)
        IN  \A i, j \in 1..Len(origin) :
                Separated(origin, i, j) =>
                    /\ parsedHistory[j] # origin[j].mark
                    /\ parsedHistory[j] # parsedHistory[i]
                    /\ (\A h \in 1..(i - 1) : origin[h].mark # origin[i].mark)
                           => parsedHistory[i] = origin[i].mark

\* C10: contiguous sibling leaves with the same mark id give exactly one segment,
\* whose text is the concatenation of their texts, and exactly one skeleton leaf
\* referencing it, wherever in the document they stand.
C10_DissectedIsOneSegment ==
    editorPc # "editing" =>
        LET origin == Origin(editorContent)
            leaves == SkeletonLeaves(parsedStructure)
        IN  \A i \in 1..(Len(origin) - 1) :
                (origin[i].mark # Null /\ origin[i + 1].mark = origin[i].mark) =>
                    LET id == parsedHistory[i]
                    IN  /\ parsedHistory[i + 1] = id
                        /\ Cardinality(SegmentsWithId(id)) = 1
                        /\ \A s \in SegmentsWithId(id) :
                               parsedTextSegments[s].srcText = RunText(origin, i)
                        /\ Cardinality({ l \in 1..Len(leaves) :
                                           NodeTextSegmentId(leaves[l]) = id }) = 1

\* no two neighbouring children of a node of the skeleton refer to the same id
RECURSIVE NoRepeatedReference(_)
NoRepeatedReference(structure) ==
    LET content == ContentOf(structure)
    IN  /\ \A i \in 1..(Len(content) - 1) :
              ("textSegmentId" \in DOMAIN content[i] /\ "textSegmentId" \in DOMAIN content[i + 1])
                  => content[i].textSegmentId # content[i + 1].textSegmentId
        /\ \A i \in 1..Len(content) : NoRepeatedReference(content[i])

\* every id the skeleton refers to has exactly one segment
EveryReferenceHasOneSegment ==
    LET leaves == SkeletonLeaves(parsedStructure)
    IN  \A l \in 1..Len(leaves) :
            "textSegmentId" \in DOMAIN leaves[l]
                => Cardinality(SegmentsWithId(leaves[l].textSegmentId)) = 1

\* C19: every textSegmentId of the skeleton that parseEditorContent returns has
\* exactly one entry among the segments it returns, and neighbouring leaves of
\* the skeleton under one parent never refer to the same id.
C19_SkeletonMatchesSegments ==
    editorPc # "editing" =>
        /\ EveryReferenceHasOneSegment
        /\ NoRepeatedReference(parsedStructure)

\* leaf i carries a mark whose id was found stale, and got an id minted for it
MintedForStaleId(origin, i) ==
    /\ origin[i].mark # Null
    /\ parsedHistory[i] # origin[i].mark
    /\ \A h \in 1..(i - 1) : parsedHistory[h] # parsedHistory[i]

\* C20: when parseEditorContent finds the id of a mark stale and mints a fresh
\* id for it, the later occurrences of the stale id are remapped to that same
\* fresh id: the leaves that follow and still carry the old mark share the one
\* new id.
C20_LaterOccurrencesShareFreshId ==
    editorPc # "editing" =>
        LET origin == Origin(editorContent)
        IN  \A i \in 1..(Len(origin) - 1) :
                (MintedForStaleId(origin, i) /\ origin[i + 1].mark = origin[i].mark)
                    => parsedHistory[i + 1] = parsedHistory[i]

(***************************************************************************)
(* The history of the suggestions view, checked under SpecView.            *)
(***************************************************************************)
\* C6: when a user action of the suggestions view (accepting or discarding a
\* suggestion, one debounced edit) is through, it has added exactly one entry
\* to the history.
C6_OneEntryPerAction ==
    (Quiescent /\ action # "none") => entries = 1


(***************************************************************************)
(* Claim about the translation requests, checked under SpecTranslation.    *)
(***************************************************************************)
\* C18: the response of a request that a newer startTranslation call has
\* superseded is discarded: whatever the order of startTranslation,
\* abortTranslation and the arrival of responses, only the response of the
\* request started last is written to textSegmentsFromApi.
C18_OnlyLatestResponseWritten ==
    textSegmentsFromApi.request # 0 => textSegmentsFromApi.request = Len(requests)

(***************************************************************************)
(* Claims about the methods of the store, checked under SpecView.          *)
(***************************************************************************)
\* the record was marked deleted by applyEdits
MarkedDeleted(textSegment) ==
    /\ textSegment.edits # <<>>
    /\ textSegment.edits[Len(textSegment.edits)].type = "deleted"
    /\ textSegment.hpeText = <<>>

\* the step is the call applyEdits(textSegments) of the timer callback
ApplyEditsCalled == timerPending /\ ~timerPending'

\* C16: once applyEdits has marked a record deleted ('deleted' edit logged,
\* displayed text emptied), a later applyEdits call in which its id is still
\* absent from the parsed segments changes no field of the record, its edit log
\* included.
C16_DeletedRecordIsFrozen ==
    [][ApplyEditsCalled =>
          \A i \in 1..Len(storeState.augmentedTextSegments) :
             LET textSegment == storeState.augmentedTextSegments[i]
             IN  (/\ MarkedDeleted(textSegment)
                  /\ FindTextSegment(parsedTextSegments, textSegment._id) = 0)
                 => storeState'.augmentedTextSegments[i] = textSegment]_vars

\* the step is a click on the accept or on the discard button
SuggestionResolved ==
    Quiescent /\ microtasks' = <<"flushJobs">> /\ action' \in {"accept", "discard"}

\* C17: applySuggestion sets the displayed text of a record with an active
\* suggestion to the suggestion text, discardSuggestion sets it to the machine
\* translation; both make suggestionIsActive false and append exactly one edit
\* ('accepted' resp. 'rejected', before = the displayed text so far, after = the
\* new displayed text), and every record with another id stays as it is.
C17_ResolveChangesOneRecord ==
    [][SuggestionResolved =>
          LET before == storeState.augmentedTextSegments
              after == storeState'.augmentedTextSegments
          IN  /\ Len(after) = Len(before)
              /\ \E i \in 1..Len(before) :
                    /\ before[i].suggestionIsActive
                    /\ after[i] =
                          [before[i] EXCEPT
                              !.hpeText = IF action' = "accept" THEN before[i].apeText
                                          ELSE before[i].mtText,
                              !.suggestionIsActive = FALSE,
                              !.edits = Append(@,
                                  [type |-> IF action' = "accept" THEN "accepted"
                                            ELSE "rejected",
                                   before |-> before[i].hpeText,
                                   after |-> after[i].hpeText])]
                    /\ \A j \in 1..Len(before) :
                          before[j]._id # before[i]._id => after[j] = before[j]]_vars

\* one suggestion was accepted while the other record still has its own
C17_Witness ==
    /\ action = "accept"
    /\ \E i, j \in 1..Len(storeState.augmentedTextSegments) :
          LET accepted == storeState.augmentedTextSegments[i]
              other == storeState.augmentedTextSegments[j]
          IN  /\ accepted.edits = <<[type |-> "accepted", before |-> accepted.mtText,
                                     after |-> accepted.apeText]>>
              /\ accepted.hpeText = accepted.apeText
              /\ ~accepted.suggestionIsActive
              /\ other._id # accepted._id
              /\ other.suggestionIsActive /\ other.edits = <<>>

(***************************************************************************)
(* Claims about buildEditorContentWithMarks, checked under SpecBuild.      *)
(***************************************************************************)
\* the leaves of the skeleton that refer to a segment
SkeletonReferences ==
    SelectSeq(SkeletonLeaves(skeleton), LAMBDA leaf : "textSegmentId" \in DOMAIN leaf)

CollectionIds == { segmentCollection[i]._id : i \in 1..Len(segmentCollection) }

\* the ids the skeleton refers to that the collection has no record of
MissingIds ==
    { SkeletonReferences[i].textSegmentId : i \in 1..Len(SkeletonReferences) } \ CollectionIds

\* C11: buildEditorContentWithMarks fails with the error `text segment cannot be
\* found` whenever some leaf of the skeleton, at any depth, has a textSegmentId
\* the collection does not hold (it never skips or substitutes such a leaf), and
\* it succeeds whenever every id referred to is present.
C11_MissingSegmentFails ==
    buildPc = "built" =>
        /\ rebuilt.error <=> MissingIds # {}
        /\ rebuilt.error => rebuilt.textSegmentId \in MissingIds

\* the build failed on a reference inside a quote although the collection
\* holds other segments
C11_Witness ==
    /\ buildPc = "built"
    /\ rebuilt.error
    /\ segmentCollection # <<>>
    /\ \E n \in 1..Len(ContentOf(skeleton)) :
          /\ skeleton.content[n].type = "blockquote"
          /\ \E leaf \in { SkeletonLeaves(skeleton.content[n])[i] :
                              i \in 1..Len(SkeletonLeaves(skeleton.content[n])) } :
                /\ "textSegmentId" \in DOMAIN leaf
                /\ leaf.textSegmentId = rebuilt.textSegmentId

\* the text of the leaves of a built document that carry marks, that is, of the
\* leaves made of references
RECURSIVE MarkedText(_)
MarkedText(node) ==
    IF "text" \in DOMAIN node
    THEN IF MarksOf(node) # <<>> THEN node.text ELSE <<>>
    ELSE Flatten([i \in 1..Len(ContentOf(node)) |-> MarkedText(node.content[i])])

\* the text of a segment the build is to show
RelevantText(textSegmentId, takeSource) ==
    LET textSegment == segmentCollection[CHOOSE i \in 1..Len(segmentCollection) :
                                             segmentCollection[i]._id = textSegmentId]
    IN  IF takeSource THEN textSegment.srcText ELSE textSegment.hpeText

\* C12: whenever the rebuild succeeds, the concatenated text of the leaves made
\* of segment references equals the concatenation, in skeleton order, of the
\* displayed text (of the source text when takeSource is set) of the segments
\* referred to, with and without an active suggestion.
C12_RebuildKeepsText ==
    (buildPc = "built" /\ ~rebuilt.error) =>
        MarkedText(rebuilt.content) =
            Flatten([i \in 1..Len(SkeletonReferences) |->
                        RelevantText(SkeletonReferences[i].textSegmentId, sourceSide)])

(***************************************************************************)
(* Claims about getHighlights, checked under SpecHighlight.                *)
(***************************************************************************)
\* the text the spans of a list spell out
SpanText(spans) == Flatten([i \in 1..Len(spans) |-> spans[i].value])

\* C13: concatenating the values of fromHighlights gives back `from` exactly and
\* those of toHighlights give back `to`, also when the two texts differ only in
\* the amount of whitespace between words.
C13_SpansReconstructTexts ==
    highlightPc = "done" =>
        /\ SpanText(highlights.fromHighlights) = fromText
        /\ SpanText(highlights.toHighlights) = toText

\* C14: getHighlights(s, s) returns two equal span lists, each a single span
\* that is not highlighted and whose value is s.
C14_IdenticalTexts ==
    (highlightPc = "done" /\ fromText = toText) =>
        /\ highlights.fromHighlights = highlights.toHighlights
        /\ highlights.fromHighlights = <<[value |-> fromText, highlight |-> FALSE]>>

C14_Witness ==
    /\ highlightPc = "done"
    /\ fromText = toText
    /\ Len(tokenize(fromText)) >= 3
    /\ Len(highlights.fromHighlights) = 1

\* a list of spans with neighbours of equal highlight joined into one span
RECURSIVE GroupRuns(_, _)
GroupRuns(spans, i) ==
    IF i = 0 THEN <<>>
    ELSE LET before == GroupRuns(spans, i - 1)
             n == Len(before)
         IN  IF n > 0 /\ before[n].highlight = spans[i].highlight
             THEN [before EXCEPT ![n].value = @ \o spans[i].value]
             ELSE Append(before, spans[i])

\* the words and blanks of one side of the diff (strategy "removed": of `from`,
\* "added": of `to`) as the diff reports them, changed ones highlighted
DiffChains(strategy) ==
    LET otherStrategy == IF strategy = "removed" THEN "added" ELSE "removed"
        own == SelectSeq(diffWords(fromText, toText),
                         LAMBDA c : ~ChangeIs(c, otherStrategy))
        spans == [i \in 1..Len(own) |->
                     [value |-> own[i].value, highlight |-> ChangeIs(own[i], strategy)]]
    IN  GroupRuns(spans, Len(spans))

\* chain i is unchanged whitespace between two changed words
Bridges(chains, i) ==
    /\ 1 < i /\ i < Len(chains)
    /\ ~chains[i].highlight
    /\ stringContainsOnlyWhitespace(chains[i].value)
    /\ chains[i - 1].highlight /\ chains[i + 1].highlight

\* every run of changed words as one highlighted span, the whitespace between
\* its words included; everything else as it was
RunSpans(chains) ==
    LET bridged == [i \in 1..Len(chains) |->
                       [value |-> chains[i].value,
                        highlight |-> chains[i].highlight \/ Bridges(chains, i)]]
    IN  GroupRuns(bridged, Len(bridged))

\* C15: a run of k >= 2 consecutive changed words separated only by unchanged
\* whitespace comes back as exactly one highlighted span on each side, the
\* whitespace between the words included, for every k, and unchanged text stays
\* in spans that are not highlighted.
C15_ChangedRunIsOneSpan ==
    highlightPc = "done" =>
        /\ highlights.fromHighlights = RunSpans(DiffChains("removed"))
        /\ highlights.toHighlights = RunSpans(DiffChains("added"))

\* a run of three changed words was highlighted
C15_Witness ==
    /\ highlightPc = "done"
    /\ fromText = <<"a", " ", "a", " ", "a">>
    /\ toText = <<"b", " ", "b", " ", "b">>
    /\ \E i \in 1..4 : Bridges(DiffChains("removed"), i)
    /\ highlights.fromHighlights = <<[value |-> fromText, highlight |-> TRUE]>>
    /\ highlights.toHighlights = <<[value |-> toText, highlight |-> TRUE]>>

\* C21: in each span list getHighlights returns no two neighbouring spans have
\* the same highlight value: the spans strictly alternate, also where the
\* whitespace pass has merged spans.
C21_SpansAlternate ==
    highlightPc = "done" =>
        \A spans \in {highlights.fromHighlights, highlights.toHighlights} :
            \A i \in 1..(Len(spans) - 1) : spans[i].highlight # spans[i + 1].highlight

\* the whitespace pass merged two changed words that follow an unchanged one
C21_Witness ==
    /\ highlightPc = "done"
    /\ \E i \in 1..MaxHighlightLen : Bridges(DiffChains("added"), i)
    /\ Len(highlights.toHighlights) >= 2
    /\ Len(highlights.toHighlights) < Len(DiffChains("added"))

\* the spans getHighlights returned for one side
SpansOf(strategy) ==
    IF strategy = "removed" THEN highlights.fromHighlights ELSE highlights.toHighlights

\* the side consists of three changed chains separated by two chains of
\* unchanged whitespace
ThreeChangedTwoGaps(strategy) ==
    LET chains == DiffChains(strategy)
    IN  Len(chains) = 5 /\ Bridges(chains, 2) /\ Bridges(chains, 4)

\* C22 as claimed: the whitespace pass merges through one whitespace chain only;
\* three changed chains separated by two whitespace chains do not come back as
\* one highlighted span.
C22_SingleHopOnly ==
    highlightPc = "done" =>
        \A strategy \in {"removed", "added"} :
            ThreeChangedTwoGaps(strategy) => Len(SpansOf(strategy)) > 1

\* C22 amended: the whitespace pass merges transitively; three changed chains
\* separated by two whitespace chains come back as one highlighted span that
\* holds all five chains.
C22_MergesTransitively ==
    highlightPc = "done" =>
        \A strategy \in {"removed", "added"} :
            ThreeChangedTwoGaps(strategy) =>
                SpansOf(strategy) =
                    <<[value |-> SpanText(DiffChains(strategy)), highlight |-> TRUE]>>

C22_Witness ==
    /\ highlightPc = "done"
    /\ ThreeChangedTwoGaps("added")
    /\ Len(highlights.toHighlights) = 1
    /\ Len(highlights.toHighlights[1].value) = MaxHighlightLen

(***************************************************************************)
(* Claims about the suggestions view with bursts of edits, undo and redo,  *)
(* checked under SpecSession.                                              *)
(***************************************************************************)
\* the callback of the oldest pending timer runs in this step
TimerCallbackRuns == timers # <<>> /\ timers' = Tail(timers)

\* the callback returns without calling applyEdits and updateState
AppliesNothing == storeState' = storeState /\ microtasks' = microtasks

\* C23: a burst of user edits is coalesced into one reconciliation: when
\* handleUserEdit is invoked again before the timer of the previous invocation
\* fires, the earlier invocation applies nothing and only the last one calls
\* applyEdits and updateState.
C23_BurstAppliesOnce ==
    [][TimerCallbackRuns =>
          IF Len(timers) >= 2
          THEN AppliesNothing
          ELSE microtasks' # <<>> /\ microtasks'[Len(microtasks')] = "resume"]_vars

\* the history watcher runs in this step
WatcherRuns ==
    microtasks # <<>> /\ Head(microtasks) = "flushJobs" /\ microtasks' = Tail(microtasks)

\* C25: after a successful undo() the snapshot the watcher tries to add is
\* suppressed as a duplicate, so the undo leaves the redo branch as it was and
\* redo() can restore the state that was current before the undo.
C25_UndoKeepsRedoBranch ==
    [][(action = "undo" /\ op = "goBack" /\ ret /\ WatcherRuns) =>
          /\ ~ret'
          /\ states' = states /\ pos' = pos /\ end' = end
          /\ pos' # end']_vars

\* C26: an undo() or redo() made while the timer of a user edit is pending is
\* not overwritten: when that timer fires, the edit parsed from the content the
\* editor had before is not applied, and the store keeps the restored state.
C26_PendingEditNotAppliedAfterUndo ==
    [][(TimerCallbackRuns /\ Head(timers).overtaken) => AppliesNothing]_vars

\* the ids of the segments a structure refers to
ReferencedIds(structure) ==
    LET leaves == SelectSeq(SkeletonLeaves(structure),
                            LAMBDA leaf : "textSegmentId" \in DOMAIN leaf)
    IN  { leaves[i].textSegmentId : i \in 1..Len(leaves) }

ActiveRecordIsUntouched(ts) ==
    ts.suggestionIsActive =>
        ts.edits = <<>> /\ ts.hpeText = ts.mtText /\ ts.apeText # ts.mtText

\* the suggestion of some record is active after the step and was not before
SuggestionReactivated ==
    \E i \in 1..Len(storeState.augmentedTextSegments),
       j \in 1..Len(storeState'.augmentedTextSegments) :
        /\ storeState.augmentedTextSegments[i]._id = storeState'.augmentedTextSegments[j]._id
        /\ ~storeState.augmentedTextSegments[i].suggestionIsActive
        /\ storeState'.augmentedTextSegments[j].suggestionIsActive

\* C28: every record whose suggestionIsActive is true has an empty edit log, a
\* displayed text equal to its machine translation and a suggestion that
\* differs from it; suggestionIsActive goes from false back to true only by
\* undo() and redo().
C28_ActiveSuggestionIsFresh ==
    /\ [](\A i \in 1..Len(storeState.augmentedTextSegments) :
             ActiveRecordIsUntouched(storeState.augmentedTextSegments[i]))
    /\ [][SuggestionReactivated => op' \in {"goBack", "goForward"}]_vars

\* an accepted suggestion is active again after undo()
C28_Witness ==
    /\ action = "undo"
    /\ op = "goBack" /\ ret
    /\ \E i \in 1..Len(storeState.augmentedTextSegments) :
          /\ storeState.augmentedTextSegments[i].suggestionIsActive
          /\ pos # end
          /\ ~states[end + 1].augmentedTextSegments[i].suggestionIsActive

\* the edit log of a record is a chain from its machine translation to the
\* text it displays
EditLogIsChain(ts) ==
    ts.edits # <<>> =>
        /\ ts.edits[1].before = ts.mtText
        /\ \A k \in 2..Len(ts.edits) : ts.edits[k].before = ts.edits[k - 1].after
        /\ ts.edits[Len(ts.edits)].after = ts.hpeText

\* C29: the edit log of every record is a chain: the before of its first entry
\* is the machine translation of the record (the empty string for a record a
\* user edit created), the before of every later entry is the after of the
\* entry before it, and the after of the last entry is the displayed text.
C29_EditLogIsChain ==
    \A i \in 1..Len(storeState.augmentedTextSegments) :
        EditLogIsChain(storeState.augmentedTextSegments[i])

\* a record a user edit created was changed again by a later edit
C29_Witness ==
    \E i \in 1..Len(storeState.augmentedTextSegments) :
        LET edits == storeState.augmentedTextSegments[i].edits
        IN  /\ Len(edits) >= 2
            /\ edits[1].type = "created"
            /\ edits[1].after # <<>>
            /\ edits[2].before # edits[2].after

(***************************************************************************)
(* Claim about the Notifier, checked under SpecNotifier.                   *)
(***************************************************************************)
\* C30: under every interleaving of notify(), dismissCurrentNotification()
\* (from the user or from the auto-dismiss timer) and the 300 ms hand-over
\* timer, the notifications are shown one at a time in the order of the
\* notify() calls, the notification shown is the head of the queue, and a
\* notification that is shown can be dismissed.
C30_NotifierShowsHeadOfQueue ==
    /\ Len(displayLog) <= Len(notified)
    /\ displayLog = SubSeq(notified, 1, Len(displayLog))
    /\ showNotification =>
          /\ notificationQueue # <<>>
          /\ notificationMessage = Head(notificationQueue).message

====
